---------------------------- MODULE Spec2Model ----------------------------
(***************************************************************************)
(* State-machine model of the JarvisBackend task dispatcher                *)
(* (AgentManager.executeTask / routeToAgent), of the decision router       *)
(* (BaseAgent) and of the cloud model gateway's key rotation               *)
(* (APIKeyManager / callGoogleAI).                                         *)
(*                                                                         *)
(* One task is followed from the top-level executeTask call to its return. *)
(* The call stack of the mutually recursive executeTask / routeToAgent is  *)
(* explicit; every await on the language model or on an executor is one    *)
(* action whose answer is drawn from the environment.                      *)
(***************************************************************************)
EXTENDS Integers, Sequences, FiniteSets, TLC

(***************************************************************************)
(* Bounds of the model.                                                    *)
(***************************************************************************)
\* largest maxRoutingDepth a caller passes to the top-level executeTask
MaxDepth == 3
\* largest number of configured cloud API keys
MaxKeys == 4
\* largest number of cloud-backend calls followed
MaxCalls == 3
\* largest number of products in a formatter payload
MaxItems == 14
\* longest text of arbitrary characters given to the ContentManager
MaxLen == 4
\* longest patterned text given to the ContentManager
MaxPatternLen == 40
\* most items a recorded WebAgent step holds
MaxFound == 2
\* most recorded steps a getNextAction call is given
MaxSteps == 4
\* most tasks running concurrently on the one manager
MaxTasks == 3
\* most records in the task history, and the largest limit asked for is one more
MaxHistory == 4

(***************************************************************************)
(* The registry.                                                           *)
(***************************************************************************)
\* AVAILABLE_AGENTS: name, requiredParams, status (absent status = implemented)
AVAILABLE_AGENTS ==
    { [name |-> "WebAgent",      requiredParams |-> {"url", "task"},          status |-> "implemented"],
      [name |-> "SearchAgent",   requiredParams |-> {"query"},                status |-> "planned"],
      [name |-> "AnalysisAgent", requiredParams |-> {"data", "analysisType"}, status |-> "planned"],
      [name |-> "CodeAgent",     requiredParams |-> {"codeTask", "language"}, status |-> "planned"] }

\* this.agents after the constructor: the names registered with registerAgent
RegisteredAgents == {"BaseAgent", "WebAgent"}

NoAgent == [name |-> "undef", requiredParams |-> {}, status |-> "undef"]

\* getAgentInfo(agentName): the registry entry, or null
getAgentInfo(agentName) ==
    IF \E a \in AVAILABLE_AGENTS : a.name = agentName
    THEN CHOOSE a \in AVAILABLE_AGENTS : a.name = agentName
    ELSE NoAgent

\* names a model answer may put in nextAgent: the implemented executor, a planned
\* one, a name registered with the manager but absent from the registry, and a
\* name that exists nowhere (also stands for a missing nextAgent)
RouteNames == {"WebAgent", "SearchAgent", "BaseAgent", "GhostAgent"}

ParamNames == {"url", "task"}

(***************************************************************************)
(* Result objects.  One record shape stands for every object the agents    *)
(* and the manager return; a field the source object lacks is "undef",     *)
(* FALSE or {}.                                                            *)
(*   origin    who built the object the fields were spread from            *)
(*   response  BaseAgent's response text: "model" (the parsed answer's     *)
(*             response), "raw" (the unparsed model text), "detailed"      *)
(*             (generateDetailedResponse), "errmsg" (the catch block)      *)
(*   basis     for "detailed": origin of the progress.lastAgentResult read *)
(*   message   the manager's / executor's error message                    *)
(*   missing   the parameter names the message lists                       *)
(*   result    "data" (an executor payload) or the response text that       *)
(*             replaced it                                                 *)
(*   status    result.status of an executor payload                        *)
(***************************************************************************)
Blank ==
    [ origin |-> "none", isCompleted |-> FALSE, error |-> FALSE,
      response |-> "undef", basis |-> "none", message |-> "undef", missing |-> {},
      result |-> "undef", status |-> "undef", formatted |-> FALSE,
      nextAgent |-> "undef", params |-> {},
      finallyFormulated |-> FALSE, finalFormulation |-> FALSE, flag |-> "none" ]

NoResult == Blank

\* a prior agent result the caller may hand in with progress
PriorResult == [Blank EXCEPT !.origin = "caller", !.result = "data"]

\* the structured error objects the manager builds in its catch blocks
ManagerError(msg, names) ==
    [Blank EXCEPT !.origin = "AgentManager", !.isCompleted = TRUE, !.error = TRUE,
                  !.message = msg, !.missing = names]

(***************************************************************************)
(* Executor outcomes: the objects WebAgent returns, or an exception.       *)
(***************************************************************************)
ExecOutcomes ==
    {"finalAnswer", "Completed", "Completed via final extraction",
     "Partially Complete", "Incomplete", "fatal", "throw"}

\* the object WebAgent returns for a (non-throwing) outcome
WebAgentResult(o) ==
    IF o = "fatal"
    THEN [Blank EXCEPT !.origin = "WebAgent", !.error = TRUE, !.message = "WebAgent failed"]
    ELSE [Blank EXCEPT !.origin = "WebAgent",
                       !.isCompleted = (o \in {"finalAnswer", "Completed", "Completed via final extraction"}),
                       !.result = "data",
                       !.status = IF o = "finalAnswer" THEN "undef" ELSE o]

(***************************************************************************)
(* Model answers to a BaseAgent prompt.                                    *)
(*   kind     "error" (callLangChain throws), "text" (not JSON), "direct"  *)
(*            (JSON with isCompleted true), "route" (JSON, isCompleted     *)
(*            false)                                                       *)
(*   hasResp  the JSON carries a response string                           *)
(*   generic  the response is shorter than 200 characters or contains one  *)
(*            of the generic phrases                                       *)
(*   longer   generateDetailedResponse's text is longer than the response  *)
(***************************************************************************)
Ans(kind, hasResp, generic, longer, nextAgent, params) ==
    [kind |-> kind, hasResp |-> hasResp, generic |-> generic, longer |-> longer,
     nextAgent |-> nextAgent, params |-> params]

Answers ==
    { Ans("error", FALSE, FALSE, FALSE, "undef", {}) }
    \cup { Ans("text", TRUE, g, l, "undef", {}) : g \in BOOLEAN, l \in BOOLEAN }
    \cup { Ans("direct", TRUE, g, l, "undef", {}) : g \in BOOLEAN, l \in BOOLEAN }
    \cup { Ans("direct", FALSE, FALSE, FALSE, "undef", {}) }
    \cup { Ans("route", FALSE, FALSE, FALSE, "WebAgent", ps) : ps \in SUBSET ParamNames }
    \cup { Ans("route", FALSE, FALSE, FALSE, n, {}) : n \in RouteNames \ {"WebAgent"} }

(***************************************************************************)
(* Progress context.                                                       *)
(***************************************************************************)
Progress(failed, final, last) ==
    [failedAgents |-> failed, step |-> 0, finalFormulation |-> final,
     lastAgent |-> "undef", lastAgentResult |-> last]

(***************************************************************************)
(* The Decision Router.                                                    *)
(***************************************************************************)
\* generateDetailedResponse(userPrompt, progress): a non-empty text built from
\* progress.lastAgentResult (or the generic text when there is none)
generateDetailedResponse(progress) ==
    [response |-> "detailed", basis |-> progress.lastAgentResult.origin]

\* the catch block of BaseAgent
BaseAgentError ==
    [Blank EXCEPT !.origin = "BaseAgent", !.isCompleted = TRUE, !.error = TRUE,
                  !.response = "errmsg"]

\* the direct-response object BaseAgent returns
DirectResponse(text, basis, final, flag) ==
    [Blank EXCEPT !.origin = "BaseAgent", !.isCompleted = TRUE, !.response = text,
                  !.basis = basis, !.finalFormulation = final, !.flag = flag]

\* mutant of IsFailedAgent: the failed-agent check is missing
IsFailedAgentNever(progress, nextAgent) == FALSE

\* progress.failedAgents && progress.failedAgents.includes(nextAgent)
IsFailedAgent(progress, nextAgent) == nextAgent \in progress.failedAgents

\* mutant of FinalModeOverride: the final-formulation check is missing and the
\* model's Route is passed on
FinalModeOverrideRoutes(progress) ==
    [Blank EXCEPT !.origin = "BaseAgent", !.isCompleted = FALSE,
                  !.nextAgent = "WebAgent", !.params = ParamNames]

\* the routing branch of BaseAgent taken while progress.finalFormulation is set
FinalModeOverride(progress) ==
    LET d == generateDetailedResponse(progress)
    IN  DirectResponse(d.response, d.basis, TRUE, "forcedCompletion")

\* the routing branch of BaseAgent in ordinary mode: failed-agent check, then
\* the registry and status checks (which throw into the catch block)
RouteDecision(progress, parsed) ==
    LET d      == generateDetailedResponse(progress)
        target == getAgentInfo(parsed.nextAgent)
    IN  IF IsFailedAgent(progress, parsed.nextAgent)
        THEN DirectResponse(d.response, d.basis, FALSE, "fallbackResponse")
        ELSE IF target = NoAgent THEN BaseAgentError
        ELSE IF target.status = "planned" THEN BaseAgentError
        ELSE [Blank EXCEPT !.origin = "BaseAgent", !.isCompleted = FALSE,
                           !.nextAgent = parsed.nextAgent, !.params = parsed.params]

\* the completed branch of BaseAgent (parsedResponse.isCompleted is truthy)
CompletedDecision(p, progress, parsed) ==
    LET d    == generateDetailedResponse(progress)
        last == progress.lastAgentResult
        text == IF parsed.kind = "text" THEN "raw" ELSE "model"
    IN  IF progress.finalFormulation
        THEN IF p.webAgentPrompt /\ last.result # "undef" /\ last.formatted
             THEN DirectResponse("passthrough", last.origin, TRUE, "directPassthrough")
             ELSE IF ~parsed.hasResp THEN BaseAgentError
             ELSE IF parsed.generic /\ parsed.longer
                  THEN DirectResponse(d.response, d.basis, TRUE, "none")
                  ELSE DirectResponse(text, "none", TRUE, "none")
        ELSE IF last # NoResult /\ (~last.isCompleted \/ last.result # "undef")
             THEN IF ~parsed.hasResp THEN BaseAgentError
                  ELSE IF parsed.longer
                       THEN DirectResponse(d.response, d.basis, FALSE, "none")
                       ELSE DirectResponse(text, "none", FALSE, "none")
        ELSE DirectResponse(IF parsed.hasResp THEN text ELSE "undef", "none", FALSE, "none")

\* mutant of BaseAgent: a model text that is not JSON is not caught at the
\* parse and ends in the catch block
BaseAgentParseThrows(p, ans) ==
    LET progress == IF p.agentResult # NoResult
                    THEN [p.progress EXCEPT !.lastAgentResult = p.agentResult]
                    ELSE p.progress
    IN  IF ~p.promptValid THEN BaseAgentError
        ELSE IF ans.kind \in {"error", "text"} THEN BaseAgentError
        ELSE IF ans.kind = "direct" THEN CompletedDecision(p, progress, ans)
        ELSE IF progress.finalFormulation THEN FinalModeOverride(progress)
        ELSE RouteDecision(progress, ans)

\* BaseAgent(params) given the model's answer ans.  p carries userPrompt's
\* validity, progress, and agentResult / webAgentResult (NoResult when absent),
\* which BaseAgent writes into progress.lastAgentResult before anything else.
BaseAgent(p, ans) ==
    LET progress == IF p.agentResult # NoResult
                    THEN [p.progress EXCEPT !.lastAgentResult = p.agentResult]
                    ELSE p.progress
        parsed   == IF ans.kind = "text" THEN [ans EXCEPT !.hasResp = TRUE] ELSE ans
    IN  IF ~p.promptValid THEN BaseAgentError
        ELSE IF ans.kind = "error" THEN BaseAgentError
        ELSE IF parsed.kind \in {"text", "direct"} THEN CompletedDecision(p, progress, parsed)
        ELSE IF progress.finalFormulation THEN FinalModeOverride(progress)
        ELSE RouteDecision(progress, parsed)

\* the argument object of a BaseAgent call
BaseAgentParams(promptValid, progress, agentResult, webAgentPrompt) ==
    [promptValid |-> promptValid, progress |-> progress, agentResult |-> agentResult,
     webAgentPrompt |-> webAgentPrompt]

(***************************************************************************)
(* Decision points of the Task Dispatcher.                                 *)
(***************************************************************************)
\* executeTask: if (maxRoutingDepth <= 0) throw
DepthExceeded(maxRoutingDepth) == maxRoutingDepth <= 0

\* mutant of RemainingDepth: the depth is passed on as it is
RemainingDepthSame(maxRoutingDepth) == maxRoutingDepth

\* executeTask: the remainingDepth it hands to routeToAgent, maxRoutingDepth - 1
RemainingDepth(maxRoutingDepth) == maxRoutingDepth - 1

\* mutant of WantsRoute: the decision's isCompleted is not looked at
WantsRouteAlways(currentResult) == TRUE

\* executeTask: if (!currentResult.isCompleted && currentResult.nextAgent)
WantsRoute(currentResult) == ~currentResult.isCompleted /\ currentResult.nextAgent # "undef"

\* mutant of NeedsFinalFormulation: the finallyFormulated flag is not looked at
NeedsFinalFormulationAgain(routingResult) == ~routingResult.error

\* executeTask: routingResult && !routingResult.error && !routingResult.finallyFormulated
NeedsFinalFormulation(routingResult) ==
    ~routingResult.error /\ ~routingResult.finallyFormulated

\* finalResponse && finalResponse.isCompleted && finalResponse.response
UsableFinalResponse(finalResponse) ==
    finalResponse.isCompleted /\ finalResponse.response # "undef"

\* mutant of MissingParams: only the first required parameter is checked
MissingParamsFirstOnly(agentInfo, params) == (agentInfo.requiredParams \ params) \cap {"url"}

\* routeToAgent: agentInfo.requiredParams.filter(param => !params[param])
MissingParams(agentInfo, params) == agentInfo.requiredParams \ params

\* params = { ...params, ...enhancedParams }: enhanced = [truthy, falsy], the keys
\* the enhancement gives a truthy and a falsy value
MergeParams(params, enhanced) == (params \ enhanced.falsy) \cup enhanced.truthy

\* mutant of ShouldContinue: the remaining depth is not looked at
ShouldContinueAnyDepth(result, remainingDepth) == ~result.isCompleted

\* routeToAgent: if (!result.isCompleted && remainingDepth > 0)
ShouldContinue(result, remainingDepth) == ~result.isCompleted /\ remainingDepth > 0

\* routeToAgent: result.error || (result.result && result.result.status === 'partially_completed')
ShouldEscalate(result) ==
    result.error \/ (result.result # "undef" /\ result.status = "partially_completed")

\* routeToAgent: if (result.isCompleted && !result.finallyFormulated)
ShouldFormulate(result) == result.isCompleted /\ ~result.finallyFormulated

\* updatedProgress of routeToAgent
UpdatedProgress(progress, agentName, result) ==
    [progress EXCEPT !.lastAgent = agentName, !.lastAgentResult = result,
                     !.step = progress.step + 1]

\* mutant of WithFailedAgent: the executor is not added to failedAgents
WithFailedAgentDropped(progress, agentName) == progress

\* failedAgents: [...(progress.failedAgents || []), agentName]
WithFailedAgent(progress, agentName) ==
    [progress EXCEPT !.failedAgents = progress.failedAgents \cup {agentName}]

\* routeToAgent's object for a failed / partial result:
\* { ...finalResponse, originalAgentResult, finallyFormulated: true, ... }
EscalatedResult(finalResponse) == [finalResponse EXCEPT !.finallyFormulated = TRUE]

\* { ...result, result: finalResponse.response, isCompleted: true,
\*   finallyFormulated: true, ... } of executeTask and routeToAgent
StructuredResult(base, finalResponse) ==
    [base EXCEPT !.result = finalResponse.response, !.basis = finalResponse.basis,
                 !.isCompleted = TRUE, !.finallyFormulated = TRUE]

(***************************************************************************)
(* State.                                                                  *)
(***************************************************************************)
VARIABLES
    phase,          \* "idle": no task yet; "running"; "done": the top-level call returned
    stack,          \* call stack of executeTask / routeToAgent frames, innermost last
    final,          \* the value the top-level executeTask returned
    taskHistory,    \* this.taskHistory: the agentChain of each record, in append order
    activeAgents,   \* this.activeAgents
    k0,             \* maxRoutingDepth of the top-level call
    lastCall,       \* the most recent BaseAgent call: its progress, the answer, the decision
    routerCalls,    \* number of BaseAgent calls made for the task
    finalCalls,     \* number of those made with progress.finalFormulation set
    enhanceCalls,   \* number of enhanceParameters model calls made for the task
    execLog,        \* executor invocations of the task, in order
    continuations,  \* number of recursive executeTask calls made by routeToAgent
    failedSeen,     \* every executor that appeared in a failedAgents list of the task
    allRoute,       \* every model answer so far was a Route to WebAgent with url and task
    objs,           \* the progress objects of the task, as they are now, in order of creation
    currentIndex,   \* APIKeyManager.currentIndex
    numKeys,        \* APIKeyManager.apiKeys.length
    calls,          \* cloud-backend calls: per call its state and the keys it used
    keyLog,         \* every getNextKey: index before, key returned, index after, call
    batch,          \* the batchCallLangChain in progress: its requests' calls and its outcomes
    wa,             \* the WebAgent run: its position, locals, browser and return value
    fmt,            \* the ResponseFormatterAgent call: its input, the model's output, its response
    cm,             \* the ContentManager: its configuration, the call made, what it returned
    gna,            \* the getNextAction call: the recorded steps and page metrics it got, what it returned
    tasks,          \* concurrent routeToAgent calls on the one manager: per call its position and executor
    query           \* the getTaskHistory call made: its limit and what it returned

dispatcherVars ==
    <<phase, stack, final, taskHistory, activeAgents, k0, lastCall, routerCalls,
      finalCalls, enhanceCalls, execLog, continuations, failedSeen, allRoute, objs>>

gatewayVars == <<currentIndex, numKeys, calls, keyLog, batch>>

webVars == <<wa>>

formatterVars == <<fmt>>

contentVars == <<cm>>

decideVars == <<gna>>

concurrentVars == <<tasks>>

historyVars == <<query>>

vars == <<dispatcherVars, gatewayVars, webVars, formatterVars, contentVars, decideVars, concurrentVars, historyVars>>

\* what the steps of one component leave alone
besidesDispatcher == <<gatewayVars, webVars, formatterVars, contentVars, decideVars, concurrentVars, historyVars>>

besidesGateway == <<dispatcherVars, webVars, formatterVars, contentVars, decideVars, concurrentVars, historyVars>>

besidesWeb == <<dispatcherVars, gatewayVars, formatterVars, contentVars, decideVars, concurrentVars, historyVars>>

besidesFormatter == <<dispatcherVars, gatewayVars, webVars, contentVars, decideVars, concurrentVars, historyVars>>

besidesContent == <<dispatcherVars, gatewayVars, webVars, formatterVars, decideVars, concurrentVars, historyVars>>

besidesDecide == <<dispatcherVars, gatewayVars, webVars, formatterVars, contentVars, concurrentVars, historyVars>>

besidesConcurrent == <<dispatcherVars, gatewayVars, webVars, formatterVars, contentVars, decideVars, historyVars>>

besidesHistory == <<dispatcherVars, gatewayVars, webVars, formatterVars, contentVars, decideVars, concurrentVars>>

\* a stack frame; agent is lastAgentUsed (executeTask) or agentName (routeToAgent),
\* depth is maxRoutingDepth or remainingDepth, cur is currentResult or result,
\* rr is routingResult, out the value the frame returns; progress is what the
\* progress argument held when the call was made and ref the place in objs of
\* the object that was passed; pushes counts the records the call has stored
Frame(fn, pc, agent, params, progress, depth, promptValid) ==
    [fn |-> fn, pc |-> pc, agent |-> agent, params |-> params, progress |-> progress,
     depth |-> depth, promptValid |-> promptValid,
     cur |-> NoResult, rr |-> NoResult, out |-> NoResult, chain |-> <<>>,
     enhanced |-> FALSE, invoked |-> FALSE, ref |-> 0, pushes |-> 0]

Top == stack[Len(stack)]

SetTop(f) == [stack EXCEPT ![Len(stack)] = f]

NoCall == [final |-> FALSE, failed |-> {}, last |-> "none", valid |-> TRUE,
           ans |-> "none", nextAgent |-> "undef", decision |-> NoResult]

CallRecord(p, ans, decision) ==
    [final |-> p.progress.finalFormulation, failed |-> p.progress.failedAgents,
     last |-> (IF p.agentResult # NoResult THEN p.agentResult.origin
               ELSE p.progress.lastAgentResult.origin),
     valid |-> p.promptValid, ans |-> ans.kind, nextAgent |-> ans.nextAgent,
     decision |-> decision]

\* the bookkeeping of one BaseAgent call
NoteCall(p, ans, decision) ==
    /\ lastCall' = CallRecord(p, ans, decision)
    /\ routerCalls' = routerCalls + 1
    /\ finalCalls' = finalCalls + (IF p.progress.finalFormulation THEN 1 ELSE 0)
    /\ allRoute' = (allRoute /\ ans.kind = "route" /\ ans.nextAgent = "WebAgent"
                             /\ ans.params = ParamNames)

\* no batch was started
NoBatch == [state |-> "none", requests |-> <<>>, results |-> <<>>]

InitGatewayIdle ==
    /\ batch = NoBatch
    /\ currentIndex = 0
    /\ numKeys = 1
    /\ calls = <<>>
    /\ keyLog = <<>>

InitDispatcher ==
    /\ phase = "idle"
    /\ stack = <<>>
    /\ final = NoResult
    /\ taskHistory = <<>>
    /\ activeAgents = {}
    /\ k0 = 0
    /\ lastCall = NoCall
    /\ routerCalls = 0
    /\ finalCalls = 0
    /\ enhanceCalls = 0
    /\ execLog = <<>>
    /\ continuations = 0
    /\ failedSeen = {}
    /\ allRoute = TRUE
    /\ objs = <<>>

\* no decision of the model is at hand
NoDecision == [isCompleted |-> FALSE, confidence |-> 0, type |-> "none"]

\* no WebAgent run was started
NoRun ==
    [ pc |-> "idle", browser |-> "none", launches |-> 0, closeCalls |-> 0,
      currentIteration |-> 0, taskCompleted |-> FALSE, status |-> "none",
      modelCalls |-> 0, steps |-> 0, partialData |-> FALSE, navFailed |-> FALSE,
      actionType |-> "none", fatal |-> FALSE, outcome |-> "none",
      decision |-> NoDecision,
      actResult |-> "none", extractionSteps |-> <<>>, bestStep |-> 0,
      summaryCalls |-> 0, finalExtractions |-> 0, finalFound |-> FALSE,
      allSteps |-> <<>> ]

InitWebIdle == wa = NoRun

\* no formatter call was made
NoFormat ==
    [ pc |-> "idle", k |-> 0, shape |-> "none", promptGiven |-> TRUE,
      paramsGiven |-> TRUE, wellFormed |-> TRUE,
      markers |-> 0, path |-> "none", entries |-> 0,
      isCompleted |-> FALSE, responseEmpty |-> TRUE ]

InitFormatterIdle == fmt = NoFormat

\* a string value: its characters; any other value (null, a number, an object)
Str(chars) == [isString |-> TRUE, chars |-> chars]

NonString == [isString |-> FALSE, chars |-> <<>>]

\* what prepareForLLM has returned when it was not called
NoPrepared ==
    [ systemPrompt |-> <<>>, userContent |-> <<>>, isValid |-> TRUE, totalTokens |-> 0,
      wasOptimized |-> FALSE, optimizationStage |-> "none", warning |-> FALSE ]

\* a ContentManager with configuration this, no method called yet
NoContentCall(this) ==
    [ pc |-> "idle", op |-> "none", this |-> this, input |-> NonString, suffix |-> <<>>,
      maxLength |-> 0, systemPrompt |-> <<>>, tokens |-> 0, tokensAppended |-> 0,
      text |-> <<>>, prepared |-> NoPrepared,
      chunkSize |-> 0, currentPos |-> 0, chunks |-> <<>> ]

\* new ContentManager(): maxContentLength and maxTokensPerRequest from the environment
Configurations ==
    { [maxContentLength |-> l, maxTokensPerRequest |-> t] : l \in {8, 9}, t \in {3, 12, 15} }

InitContentIdle == cm = NoContentCall([maxContentLength |-> 8, maxTokensPerRequest |-> 15])

\* no getNextAction call was made
NoNextAction ==
    [ pc |-> "idle", allSteps |-> <<>>, hasLoadingIndicators |-> FALSE,
      outcome |-> "none", result |-> NoDecision ]

InitDecideIdle == gna = NoNextAction

InitConcurrentIdle == tasks = <<>>

\* getTaskHistory was not called
NoQuery == [pc |-> "idle", limit |-> 0, result |-> <<>>]

InitHistoryIdle == query = NoQuery

\* the operations modelled on their own are not in use
InitAuxIdle == InitDecideIdle /\ InitConcurrentIdle /\ InitHistoryIdle

Init ==
    /\ InitDispatcher /\ InitGatewayIdle /\ InitWebIdle /\ InitFormatterIdle
    /\ InitContentIdle /\ InitAuxIdle

(***************************************************************************)
(* executeTask.                                                            *)
(***************************************************************************)
\* mutant of taskHistory_push: only the latest record is kept
taskHistory_pushLatestOnly(history, taskRecord) == <<taskRecord>>

\* this.taskHistory.push(taskRecord)
taskHistory_push(history, taskRecord) == Append(history, taskRecord)

\* mutant of NewObject: the new values are assigned to the object at ref itself
NewObjectInPlace(objects, ref, value) ==
    [objs |-> [objects EXCEPT ![ref] = value], ref |-> ref]

\* { ...progress, <fields> }: a new object holding value is created from the
\* object at ref; the objects after it and the place of the new one
NewObject(objects, ref, value) ==
    [objs |-> Append(objects, value), ref |-> Len(objects) + 1]

\* BaseAgent's head: a webAgentResult or agentResult it is given is assigned
\* to lastAgentResult of the progress object it is given, the one at ref
BaseAgentWrites(objects, ref, agentResult) ==
    IF agentResult = NoResult THEN objects
    ELSE [objects EXCEPT ![ref].lastAgentResult = agentResult]

\* the caller's inputs: maxRoutingDepth, lastAgentUsed, progress, and whether
\* userPrompt is a non-empty string
StartTask(k, lastAgentUsed, failed, finalMode, last, promptValid) ==
    /\ phase = "idle"
    /\ phase' = "running"
    /\ k0' = k
    /\ failedSeen' = failed
    /\ objs' = <<Progress(failed, finalMode, last)>>
    /\ stack' = <<[Frame("executeTask", "start", lastAgentUsed, {},
                         Progress(failed, finalMode, last), k, promptValid)
                      EXCEPT !.ref = 1]>>
    /\ UNCHANGED <<final, taskHistory, activeAgents, lastCall, routerCalls, finalCalls,
                   enhanceCalls, execLog, continuations, allRoute>>

\* entry of executeTask: the depth guard; its throw lands in the catch block
executeTask_guard ==
    /\ phase = "running" /\ Top.fn = "executeTask" /\ Top.pc = "start"
    /\ stack' = SetTop(IF DepthExceeded(Top.depth)
                       THEN [Top EXCEPT !.pc = "return", !.out = ManagerError("depth", {})]
                       ELSE [Top EXCEPT !.pc = "router",
                                        !.chain = <<IF Top.agent = "null" THEN "BaseAgent" ELSE Top.agent>>])
    /\ UNCHANGED objs
    /\ UNCHANGED <<phase, final, taskHistory, activeAgents, k0, lastCall, routerCalls, finalCalls,
                   enhanceCalls, execLog, continuations, failedSeen, allRoute>>

\* the BaseAgent call of executeTask (directly or through handleAgentContinuation)
\* answers; on a Route the routeToAgent call is made, else the record is stored
\* and currentResult returned
executeTask_decide(ans) ==
    /\ phase = "running" /\ Top.fn = "executeTask" /\ Top.pc = "router"
    /\ LET p        == BaseAgentParams(Top.promptValid, Top.progress, NoResult, FALSE)
           decision == BaseAgent(p, ans)
       IN  /\ NoteCall(p, ans, decision)
           /\ objs' = BaseAgentWrites(objs, Top.ref, NoResult)
           /\ IF WantsRoute(decision)
              THEN /\ stack' = Append(SetTop([Top EXCEPT !.pc = "awaitRoute", !.cur = decision]),
                                      [Frame("routeToAgent", "validate", decision.nextAgent,
                                             decision.params, Top.progress,
                                             RemainingDepth(Top.depth), TRUE)
                                         EXCEPT !.ref = Top.ref])
                   /\ UNCHANGED taskHistory
              ELSE /\ stack' = SetTop([Top EXCEPT !.pc = "return", !.cur = decision,
                                                   !.out = decision,
                                                   !.pushes = Top.pushes + 1])
                   /\ taskHistory' = taskHistory_push(taskHistory, Top.chain)
    /\ UNCHANGED <<phase, final, activeAgents, k0, enhanceCalls, execLog, continuations,
                   failedSeen>>

\* finalProgress of executeTask's final formulation
FinalProgressOfTask(progress, nextAgent, routingResult) ==
    [progress EXCEPT !.lastAgent = nextAgent, !.lastAgentResult = routingResult,
                     !.step = progress.step + 1, !.finalFormulation = TRUE]

\* routeToAgent has returned routingResult: either the final formulation call is
\* made, or routingResult is returned as it is
executeTask_afterRoute ==
    /\ phase = "running" /\ Top.fn = "executeTask" /\ Top.pc = "routed"
    /\ LET chain == Append(Top.chain, Top.cur.nextAgent)
       IN  IF NeedsFinalFormulation(Top.rr)
           THEN /\ stack' = SetTop([Top EXCEPT !.pc = "final", !.chain = chain])
                /\ UNCHANGED taskHistory
           ELSE /\ stack' = SetTop([Top EXCEPT !.pc = "return", !.chain = chain, !.out = Top.rr,
                                                !.pushes = Top.pushes + 1])
                /\ taskHistory' = taskHistory_push(taskHistory, chain)
    /\ UNCHANGED objs
    /\ UNCHANGED <<phase, final, activeAgents, k0, lastCall, routerCalls, finalCalls, enhanceCalls,
                   execLog, continuations, failedSeen, allRoute>>

\* the final formulation call of executeTask answers
executeTask_final(ans) ==
    /\ phase = "running" /\ Top.fn = "executeTask" /\ Top.pc = "final"
    /\ LET made == NewObject(objs, Top.ref,
                             FinalProgressOfTask(Top.progress, Top.cur.nextAgent, Top.rr))
           p == BaseAgentParams(TRUE, FinalProgressOfTask(Top.progress, Top.cur.nextAgent, Top.rr),
                                Top.rr, TRUE)
           finalResponse == BaseAgent(p, ans)
           usable == UsableFinalResponse(finalResponse)
           chain  == IF usable THEN Append(Top.chain, "BaseAgent (Final)") ELSE Top.chain
       IN  /\ NoteCall(p, ans, finalResponse)
           /\ objs' = BaseAgentWrites(made.objs, made.ref, Top.rr)
           /\ stack' = SetTop([Top EXCEPT !.pc = "return", !.chain = chain,
                                 !.pushes = Top.pushes + 1,
                                 !.out = IF usable THEN StructuredResult(Top.rr, finalResponse)
                                         ELSE Top.rr])
           /\ taskHistory' = taskHistory_push(taskHistory, chain)
    /\ UNCHANGED <<phase, final, activeAgents, k0, enhanceCalls, execLog, continuations,
                   failedSeen>>

(***************************************************************************)
(* routeToAgent.                                                           *)
(***************************************************************************)
\* mutant of RouteReturn: the frame returns without the finally block
RouteReturnStaysActive(v) ==
    /\ stack' = SetTop([Top EXCEPT !.pc = "return", !.out = v])
    /\ UNCHANGED activeAgents

\* a routeToAgent frame returns v: the finally block (or the catch block) removes
\* agentName from activeAgents
RouteReturn(v) ==
    /\ stack' = SetTop([Top EXCEPT !.pc = "return", !.out = v])
    /\ activeAgents' = activeAgents \ {Top.agent}

\* the synchronous head of routeToAgent: registry and registration checks, then
\* the required parameters; with none missing the executor is marked active and called
routeToAgent_validate ==
    /\ phase = "running" /\ Top.fn = "routeToAgent" /\ Top.pc = "validate"
    /\ LET agentInfo == getAgentInfo(Top.agent)
       IN  IF agentInfo = NoAgent
           THEN RouteReturn(ManagerError("unknown", {}))
           ELSE IF Top.agent \notin RegisteredAgents
           THEN /\ stack' = SetTop([Top EXCEPT !.pc = "return",
                                                !.out = ManagerError("notimpl", {})])
                /\ UNCHANGED activeAgents
           ELSE IF MissingParams(agentInfo, Top.params) # {}
           THEN /\ stack' = SetTop([Top EXCEPT !.pc = "enhance"])
                /\ UNCHANGED activeAgents
           ELSE /\ stack' = SetTop([Top EXCEPT !.pc = "exec"])
                /\ activeAgents' = activeAgents \cup {Top.agent}
    /\ UNCHANGED objs
    /\ UNCHANGED <<phase, final, taskHistory, k0, lastCall, routerCalls, finalCalls, enhanceCalls,
                   execLog, continuations, failedSeen, allRoute>>

\* what an enhanceParameters call may return: for each parameter name a truthy
\* value, a falsy value or nothing; a failed model call or unparsable answer is {}
Enhancements ==
    { [truthy |-> t, falsy |-> f] : t \in SUBSET ParamNames, f \in SUBSET ParamNames }

\* the enhanceParameters model call answers; the parameters are merged and
\* checked again
routeToAgent_enhance(e) ==
    /\ phase = "running" /\ Top.fn = "routeToAgent" /\ Top.pc = "enhance"
    /\ e.truthy \cap e.falsy = {}
    /\ enhanceCalls' = enhanceCalls + 1
    /\ LET agentInfo == getAgentInfo(Top.agent)
           params    == MergeParams(Top.params, e)
           still     == MissingParams(agentInfo, params)
       IN  IF still # {}
           THEN /\ stack' = SetTop([Top EXCEPT !.pc = "return", !.params = params,
                                                !.enhanced = TRUE,
                                                !.out = ManagerError("missing", still)])
                /\ activeAgents' = activeAgents \ {Top.agent}
           ELSE /\ stack' = SetTop([Top EXCEPT !.pc = "exec", !.params = params,
                                                !.enhanced = TRUE])
                /\ activeAgents' = activeAgents \cup {Top.agent}
    /\ UNCHANGED objs
    /\ UNCHANGED <<phase, final, taskHistory, k0, lastCall, routerCalls, finalCalls, execLog,
                   continuations, failedSeen, allRoute>>

\* the executor call answers with outcome o
routeToAgent_exec(o) ==
    /\ phase = "running" /\ Top.fn = "routeToAgent" /\ Top.pc = "exec"
    /\ execLog' = Append(execLog, [agent |-> Top.agent, outcome |-> o,
                                   remainingDepth |-> Top.depth,
                                   failedBefore |-> failedSeen,
                                   finalCallsBefore |-> finalCalls,
                                   params |-> Top.params])
    /\ LET result  == WebAgentResult(o)
           updated == UpdatedProgress(Top.progress, Top.agent, result)
           made    == NewObject(objs, Top.ref, WithFailedAgent(updated, Top.agent))
       IN  IF o = "throw"
           THEN /\ RouteReturn(ManagerError("execthrow", {}))
                /\ UNCHANGED <<continuations, failedSeen, objs>>
           ELSE IF ShouldContinue(result, Top.depth)
           THEN IF ShouldEscalate(result)
                THEN /\ stack' = SetTop([Top EXCEPT !.pc = "escalate", !.cur = result,
                                                     !.invoked = TRUE])
                     /\ failedSeen' = failedSeen \cup {Top.agent}
                     /\ UNCHANGED <<activeAgents, continuations, objs>>
                ELSE /\ stack' = Append(SetTop([Top EXCEPT !.pc = "awaitTask", !.cur = result,
                                                            !.invoked = TRUE]),
                                        [Frame("executeTask", "start", Top.agent, {},
                                               WithFailedAgent(updated, Top.agent),
                                               Top.depth, TRUE)
                                           EXCEPT !.ref = made.ref])
                     /\ objs' = made.objs
                     /\ failedSeen' = failedSeen \cup {Top.agent}
                     /\ continuations' = continuations + 1
                     /\ UNCHANGED activeAgents
           ELSE IF ShouldFormulate(result)
           THEN /\ stack' = SetTop([Top EXCEPT !.pc = "formulate", !.cur = result,
                                                !.invoked = TRUE])
                /\ UNCHANGED <<activeAgents, continuations, failedSeen, objs>>
           ELSE /\ RouteReturn(result)
                /\ UNCHANGED <<continuations, failedSeen, objs>>
    /\ UNCHANGED <<phase, final, taskHistory, k0, lastCall, routerCalls, finalCalls, enhanceCalls,
                   allRoute>>

\* finalProgress of routeToAgent for a failed or partial result
EscalationProgress(progress, agentName, result) ==
    [WithFailedAgent(UpdatedProgress(progress, agentName, result), agentName)
        EXCEPT !.finalFormulation = TRUE]

\* finalProgress of routeToAgent for a completed result
FormulationProgress(progress, agentName, result) ==
    [UpdatedProgress(progress, agentName, result) EXCEPT !.finalFormulation = TRUE]

\* the BaseAgent call made for a failed or partial result answers
routeToAgent_escalate(ans) ==
    /\ phase = "running" /\ Top.fn = "routeToAgent" /\ Top.pc = "escalate"
    /\ LET made == NewObject(objs, Top.ref, EscalationProgress(Top.progress, Top.agent, Top.cur))
           p == BaseAgentParams(TRUE, EscalationProgress(Top.progress, Top.agent, Top.cur),
                                Top.cur, FALSE)
           finalResponse == BaseAgent(p, ans)
       IN  /\ NoteCall(p, ans, finalResponse)
           /\ objs' = BaseAgentWrites(made.objs, made.ref, Top.cur)
           /\ RouteReturn(EscalatedResult(finalResponse))
    /\ UNCHANGED <<phase, final, taskHistory, k0, enhanceCalls, execLog, continuations,
                   failedSeen>>

\* the BaseAgent call made for a completed result answers
routeToAgent_formulate(ans) ==
    /\ phase = "running" /\ Top.fn = "routeToAgent" /\ Top.pc = "formulate"
    /\ LET made == NewObject(objs, Top.ref, FormulationProgress(Top.progress, Top.agent, Top.cur))
           p == BaseAgentParams(TRUE, FormulationProgress(Top.progress, Top.agent, Top.cur),
                                Top.cur, FALSE)
           finalResponse == BaseAgent(p, ans)
       IN  /\ NoteCall(p, ans, finalResponse)
           /\ objs' = BaseAgentWrites(made.objs, made.ref, Top.cur)
           /\ RouteReturn(IF UsableFinalResponse(finalResponse)
                          THEN StructuredResult(Top.cur, finalResponse)
                          ELSE Top.cur)
    /\ UNCHANGED <<phase, final, taskHistory, k0, enhanceCalls, execLog, continuations,
                   failedSeen>>

(***************************************************************************)
(* Returning.                                                              *)
(***************************************************************************)
\* the innermost frame returns its value to the frame that awaits it: an
\* executeTask frame takes it as routingResult; a routeToAgent frame returns the
\* recursive executeTask's value as its own (and its finally block runs); the
\* top-level executeTask hands it to the caller
Return ==
    /\ phase = "running" /\ Top.pc = "return"
    /\ LET v    == Top.out
           rest == SubSeq(stack, 1, Len(stack) - 1)
       IN  IF rest = <<>>
           THEN /\ phase' = "done"
                /\ final' = v
                /\ stack' = rest
                /\ UNCHANGED activeAgents
           ELSE LET parent == rest[Len(rest)]
                IN  IF parent.fn = "executeTask"
                    THEN /\ stack' = [rest EXCEPT ![Len(rest)] =
                                         [parent EXCEPT !.pc = "routed", !.rr = v]]
                         /\ UNCHANGED <<phase, final, activeAgents>>
                    ELSE /\ stack' = [rest EXCEPT ![Len(rest)] =
                                         [parent EXCEPT !.pc = "return", !.out = v]]
                         /\ activeAgents' = activeAgents \ {parent.agent}
                         /\ UNCHANGED <<phase, final>>
    /\ UNCHANGED objs
    /\ UNCHANGED <<taskHistory, k0, lastCall, routerCalls, finalCalls, enhanceCalls, execLog,
                   continuations, failedSeen, allRoute>>

(***************************************************************************)
(* The dispatcher's specification.                                         *)
(***************************************************************************)
\* values of lastAgentUsed a caller passes ("null" when absent)
LastAgents == {"null", "BaseAgent", "WebAgent"}

\* failedAgents lists a caller passes in progress
CallerFailed == {{}, {"WebAgent"}, {"SearchAgent"}}

Next ==
    \/ /\ \E k \in 0..MaxDepth, la \in LastAgents, f \in CallerFailed,
             fm \in BOOLEAN, last \in {NoResult, PriorResult}, pv \in BOOLEAN :
             StartTask(k, la, f, fm, last, pv)
       /\ UNCHANGED besidesDispatcher
    \/ executeTask_guard /\ UNCHANGED besidesDispatcher
    \/ (\E ans \in Answers : executeTask_decide(ans)) /\ UNCHANGED besidesDispatcher
    \/ executeTask_afterRoute /\ UNCHANGED besidesDispatcher
    \/ (\E ans \in Answers : executeTask_final(ans)) /\ UNCHANGED besidesDispatcher
    \/ routeToAgent_validate /\ UNCHANGED besidesDispatcher
    \/ (\E e \in Enhancements : routeToAgent_enhance(e)) /\ UNCHANGED besidesDispatcher
    \/ (\E o \in ExecOutcomes : routeToAgent_exec(o)) /\ UNCHANGED besidesDispatcher
    \/ (\E ans \in Answers : routeToAgent_escalate(ans)) /\ UNCHANGED besidesDispatcher
    \/ (\E ans \in Answers : routeToAgent_formulate(ans)) /\ UNCHANGED besidesDispatcher
    \/ Return /\ UNCHANGED besidesDispatcher

Spec == Init /\ [][Next]_vars

\* every model call and every executor call returns
SpecFair == Spec /\ WF_vars(Next)

(***************************************************************************)
(* The cloud model gateway: APIKeyManager and callGoogleAI.                *)
(* A key is named by its slot 0 .. numKeys-1 in apiKeys.  A call is        *)
(* suspended while model.invoke is awaited, so calls may overlap.          *)
(***************************************************************************)
\* the retry cap of callGoogleAI
RetryCap == 3

\* mutant of MaxRetries: the number of attempts is not capped
MaxRetriesUncapped(n) == n

\* Math.min(3, apiKeyManager.getTotalKeys())
MaxRetries(n) == IF RetryCap < n THEN RetryCap ELSE n

\* mutant of NextIndex: the index wraps one step late
NextIndexWrapsLate(i, n) == IF i + 1 > n THEN 0 ELSE i + 1

\* getNextKey: this.currentIndex = (this.currentIndex + 1) % this.apiKeys.length
NextIndex(i, n) == (i + 1) % n

\* getNextKey on behalf of call c: the key at currentIndex is returned and the
\* index advanced
getNextKey(c) ==
    /\ currentIndex' = NextIndex(currentIndex, numKeys)
    /\ keyLog' = Append(keyLog, [before |-> currentIndex, key |-> currentIndex,
                                 after |-> NextIndex(currentIndex, numKeys), call |-> c])

\* the error classes callGoogleAI tells apart: "quota" has quota, rate or limit
\* in its message or status 429; "other" is any other error
ErrorKinds == {"quota", "other"}

\* mutant of IsQuotaError: every error is taken for a quota error
IsQuotaErrorAlways(e) == TRUE

\* error.message.includes('quota') || includes('rate') || includes('limit') ||
\* error.status === 429
IsQuotaError(e) == e = "quota"

\* the concurrent lifelines that call the gateway (two tasks, or the two
\* requests of a batch); each has at most one call in flight
Callers == {"first", "second"}

InFlight == {c \in 1..Len(calls) : calls[c].state = "invoking"}

\* callGoogleAI is entered: maxRetries is fixed and the first attempt takes a key
callGoogleAI_begin ==
    /\ Len(calls) < MaxCalls
    /\ Cardinality(InFlight) < Cardinality(Callers)
    /\ getNextKey(Len(calls) + 1)
    /\ calls' = Append(calls, [state |-> "invoking", attempt |-> 0,
                               maxRetries |-> MaxRetries(numKeys),
                               keys |-> <<currentIndex>>, errors |-> <<>>,
                               lastError |-> "none",
                               response |-> -1])
    /\ UNCHANGED <<numKeys, batch>>

\* model.invoke of call c resolves: the response is returned
callGoogleAI_success(c) ==
    /\ c \in 1..Len(calls) /\ calls[c].state = "invoking"
    /\ calls' = [calls EXCEPT ![c].state = "returned",
                              ![c].response = calls[c].keys[Len(calls[c].keys)]]
    /\ UNCHANGED <<currentIndex, numKeys, keyLog, batch>>

\* model.invoke of call c rejects with an error of kind e: a quota error
\* continues the loop (next attempt, next key) while attempts remain; any other
\* error breaks out; leaving the loop throws the aggregated error
callGoogleAI_failure(c, e) ==
    /\ c \in 1..Len(calls) /\ calls[c].state = "invoking"
    /\ IF IsQuotaError(e) /\ calls[c].attempt + 1 < calls[c].maxRetries
       THEN /\ getNextKey(c)
            /\ calls' = [calls EXCEPT ![c].attempt = calls[c].attempt + 1,
                                      ![c].lastError = e,
                                      ![c].errors = Append(calls[c].errors, e),
                                      ![c].keys = Append(calls[c].keys, currentIndex)]
       ELSE /\ calls' = [calls EXCEPT ![c].state = "threw", ![c].lastError = e,
                                      ![c].errors = Append(calls[c].errors, e)]
            /\ UNCHANGED <<currentIndex, keyLog>>
    /\ UNCHANGED <<numKeys, batch>>

\* the call record callGoogleAI starts with, its first key taken at index i
NewCall(i) ==
    [state |-> "invoking", attempt |-> 0, maxRetries |-> MaxRetries(numKeys),
     keys |-> <<i>>, errors |-> <<>>, lastError |-> "none", response |-> -1]

\* the rotation index after j further getNextKey calls
RECURSIVE IndexAfter(_, _)
IndexAfter(i, j) == IF j = 0 THEN i ELSE NextIndex(IndexAfter(i, j - 1), numKeys)

BatchSizes == 0..2

\* mutant of BatchOutcomes: a rejected request leaves no outcome
BatchOutcomesFulfilledOnly(requests) ==
    LET RECURSIVE Keep(_)
        Keep(rs) == IF rs = <<>> THEN <<>>
                    ELSE IF calls[Head(rs)].state = "returned"
                         THEN <<[success |-> TRUE, data |-> calls[Head(rs)].response,
                                 error |-> "none"]>> \o Keep(Tail(rs))
                         ELSE Keep(Tail(rs))
    IN  Keep(requests)

\* results.map(result => result.status === 'fulfilled' ? { success: true, data }
\*                                                     : { success: false, error })
BatchOutcomes(requests) ==
    [i \in 1..Len(requests) |->
        IF calls[requests[i]].state = "returned"
        THEN [success |-> TRUE, data |-> calls[requests[i]].response, error |-> "none"]
        ELSE [success |-> FALSE, data |-> -1, error |-> calls[requests[i]].lastError]]

\* batchCallLangChain(prompts) with n prompts: prompts.map starts every request's
\* call in order, each running up to its first await (one key taken each)
batchCallLangChain_begin(n) ==
    /\ batch.state = "none"
    /\ Len(calls) + n <= MaxCalls
    /\ Cardinality(InFlight) + n <= Cardinality(Callers)
    /\ currentIndex' = IndexAfter(currentIndex, n)
    /\ keyLog' = keyLog \o [j \in 1..n |->
                     [before |-> IndexAfter(currentIndex, j - 1),
                      key |-> IndexAfter(currentIndex, j - 1),
                      after |-> IndexAfter(currentIndex, j), call |-> Len(calls) + j]]
    /\ calls' = calls \o [j \in 1..n |-> NewCall(IndexAfter(currentIndex, j - 1))]
    /\ batch' = [state |-> "pending", requests |-> [j \in 1..n |-> Len(calls) + j],
                 results |-> <<>>]
    /\ UNCHANGED numKeys

\* Promise.allSettled resolves once every request has settled; the outcomes are
\* mapped and returned
batchCallLangChain_settle ==
    /\ batch.state = "pending"
    /\ \A i \in 1..Len(batch.requests) : calls[batch.requests[i]].state # "invoking"
    /\ batch' = [batch EXCEPT !.state = "resolved", !.results = BatchOutcomes(batch.requests)]
    /\ UNCHANGED <<currentIndex, numKeys, calls, keyLog>>

InitGateway ==
    /\ InitDispatcher
    /\ InitWebIdle
    /\ InitFormatterIdle
    /\ InitContentIdle
    /\ InitAuxIdle
    /\ batch = NoBatch
    /\ numKeys \in 1..MaxKeys
    /\ currentIndex = 0
    /\ calls = <<>>
    /\ keyLog = <<>>

NextGateway ==
    \/ callGoogleAI_begin /\ UNCHANGED besidesGateway
    \/ (\E c \in 1..MaxCalls : callGoogleAI_success(c)) /\ UNCHANGED besidesGateway
    \/ (\E c \in 1..MaxCalls, e \in ErrorKinds : callGoogleAI_failure(c, e))
          /\ UNCHANGED besidesGateway

SpecGateway == InitGateway /\ [][NextGateway]_vars

\* one batch and the calls of its requests
NextBatch ==
    \/ (\E n \in BatchSizes : batchCallLangChain_begin(n)) /\ UNCHANGED besidesGateway
    \/ (\E c \in 1..MaxCalls : callGoogleAI_success(c)) /\ UNCHANGED besidesGateway
    \/ (\E c \in 1..MaxCalls, e \in ErrorKinds : callGoogleAI_failure(c, e))
          /\ UNCHANGED besidesGateway
    \/ batchCallLangChain_settle /\ UNCHANGED besidesGateway

SpecBatch == InitGateway /\ [][NextBatch]_vars

(***************************************************************************)
(* The Browser Automation Agent: one WebAgent run.  wa holds                *)
(*   pc                where the run is suspended (the await it waits on)  *)
(*   browser           "none" (undefined), "open", "closed"                *)
(*   launches          browsers the run has opened                         *)
(*   closeCalls        browser.close() calls                               *)
(*   currentIteration, taskCompleted   the locals of that name             *)
(*   status            finalResult: "finalAnswer" or its status field      *)
(*   modelCalls        callLangChain calls made by the run                 *)
(*   steps             allSteps.length                                     *)
(*   partialData       some step in allSteps carries extracted items       *)
(*   navFailed         the initial page.goto rejected                      *)
(*   fatal             the catch block built the return value              *)
(*   outcome           "none", "returned" or "threw"                       *)
(*   decision          what getNextAction returned in this iteration       *)
(*   actResult         "failed" or "ok": how the planned action of the     *)
(*                     iteration just finished ended                       *)
(*   extractionSteps   the steps of allSteps whose result holds items, in  *)
(*                     order: per step its number of items                 *)
(*                     (items.length || products.length)                   *)
(*   bestStep          the extraction step whose data generatePartialResult *)
(*                     returned (0: none)                                  *)
(*   summaryCalls      model calls made by generatePartialResult           *)
(*   finalExtractions  final extraction passes made after the loop         *)
(*   finalFound        the final extraction pass returned items            *)
(***************************************************************************)
maxIterations == 8

ConfidenceThreshold == 7

\* mutant of LoopContinues: the iteration counter is not tested
LoopContinuesUnbounded(w) == ~w.taskCompleted

\* while (!taskCompleted && currentIteration < maxIterations)
LoopContinues(w) == ~w.taskCompleted /\ w.currentIteration < maxIterations

\* the loop test, followed by currentIteration++ or by the code after the loop:
\* a completed run goes to its return (and so to finally), an uncompleted one to
\* the final extraction attempt
LoopHead(w) ==
    IF LoopContinues(w)
    THEN [w EXCEPT !.pc = "decide", !.currentIteration = w.currentIteration + 1]
    ELSE [w EXCEPT !.pc = "finalExtraction"]

\* break out of the loop with the task completed: the return statement is
\* reached and finally runs
Completed(w, status) ==
    [w EXCEPT !.pc = "finally", !.taskCompleted = TRUE, !.status = status]

\* mutant of OnException: the exception is swallowed and the run goes on
OnExceptionSwallowed(w) == LoopHead(w)

\* catch (error): the fatal-error object becomes the return value, finally runs
OnException(w) == [w EXCEPT !.pc = "finally", !.fatal = TRUE]

\* mutant of MustClose: the browser is never closed
MustCloseNever(w) == FALSE

\* finally: if (browser)
MustClose(w) == w.browser # "none"

\* WebAgent(params): throws before the try block when url or task is missing
WebAgent_start(urlGiven, taskGiven) ==
    /\ wa.pc = "idle"
    /\ wa' = IF ~urlGiven \/ ~taskGiven
             THEN [wa EXCEPT !.pc = "done", !.outcome = "threw"]
             ELSE [wa EXCEPT !.pc = "launch"]

\* chromium.launch settles: a failed launch leaves browser undefined, the catch
\* block returns and finally has nothing to close
WebAgent_launch(ok) ==
    /\ wa.pc = "launch"
    /\ wa' = IF ok
             THEN [wa EXCEPT !.pc = "setup", !.browser = "open", !.launches = wa.launches + 1]
             ELSE [OnException(wa) EXCEPT !.pc = "done", !.outcome = "returned"]

\* newContext, newPage and setExtraHTTPHeaders settle
WebAgent_setup(ok) ==
    /\ wa.pc = "setup"
    /\ wa' = IF ok THEN [wa EXCEPT !.pc = "goto"] ELSE OnException(wa)

\* the initial page.goto settles
WebAgent_goto(ok) ==
    /\ wa.pc = "goto"
    /\ wa' = IF ok THEN [wa EXCEPT !.pc = "settle"]
             ELSE OnException([wa EXCEPT !.navFailed = TRUE])

\* the waits and the robot check after navigation settle; the loop is entered
WebAgent_settle(ok) ==
    /\ wa.pc = "settle"
    /\ wa' = IF ok THEN LoopHead(wa) ELSE OnException(wa)

\* mutant of DeclaresCompletion: the confidence is not looked at
DeclaresCompletionAnyConfidence(d) == d.isCompleted

\* if (isCompleted && confidence > 0.7)
DeclaresCompletion(d) == d.isCompleted /\ d.confidence > ConfidenceThreshold

\* what getNextAction returns, from the model or from the fallback: isCompleted,
\* confidence (in tenths) and the action type
Decisions ==
    { [isCompleted |-> c, confidence |-> f, type |-> t] :
        c \in BOOLEAN, f \in {3, 7, 9}, t \in {"extract", "other"} }

\* getComprehensiveDOM and getNextAction settle (neither throws): one model call
WebAgent_decide(d) ==
    /\ wa.pc = "decide"
    /\ LET w == [wa EXCEPT !.modelCalls = wa.modelCalls + 1, !.actionType = d.type,
                           !.decision = d, !.actResult = "none"]
       IN  wa' = IF DeclaresCompletion(d)
                 THEN Completed(w, "finalAnswer")
                 ELSE IF d.type = "extract" THEN [w EXCEPT !.pc = "extract"]
                 ELSE [w EXCEPT !.pc = "act"]

\* mutant of PushStep: the step is recorded twice
PushStepTwice(allSteps, currentIteration) ==
    Append(Append(allSteps, currentIteration), currentIteration)

\* allSteps.push({ iteration: currentIteration, action, result, pageUrl }): the
\* iteration number of each recorded step
PushStep(allSteps, currentIteration) == Append(allSteps, currentIteration)

\* executeAction of an extract action settles: "items" (data with items),
\* "empty" (data without items) or "failed" (success false)
WebAgent_extract(r) ==
    /\ wa.pc = "extract"
    /\ wa' = CASE r = "items" -> Completed(wa, "Completed")
               [] r = "empty" ->
                    LoopHead([wa EXCEPT !.steps = wa.steps + 1,
                                        !.decision = NoDecision,
                                        !.allSteps = PushStep(wa.allSteps, wa.currentIteration)])
               [] OTHER       -> [wa EXCEPT !.pc = "act"]

\* after a failed action: if (currentIteration < maxIterations - 1)
RecoveryRemains(w) == w.currentIteration < maxIterations - 1

\* executeAction of the planned action settles and the step is recorded with
\* the n items its result holds:
\* "failed", "ok", "okItems" (an extract action that found items), "navigated"
\* (the URL changed and the extra wait resolved), "navigatedThrow" (it rejected)
WebAgent_act(r, n) ==
    /\ wa.pc = "act"
    /\ r = "okItems" => wa.actionType = "extract"
    /\ n > 0 <=> r = "okItems"
    /\ LET w == [wa EXCEPT !.steps = wa.steps + 1,
                           !.allSteps = PushStep(wa.allSteps, wa.currentIteration),
                           !.partialData = wa.partialData \/ r = "okItems",
                           !.actResult = IF r = "failed" THEN "failed" ELSE "ok",
                           !.decision = NoDecision,
                           !.extractionSteps = IF n > 0 THEN Append(wa.extractionSteps, n)
                                               ELSE wa.extractionSteps]
       IN  wa' = CASE r = "failed" ->
                        IF RecoveryRemains(w)
                        THEN LoopHead(w)
                        ELSE [w EXCEPT !.pc = "finalExtraction"]
                   [] r = "navigatedThrow" -> OnException(w)
                   [] OTHER -> LoopHead(w)

\* mutant of bestExtraction: the first step that holds items is taken
bestExtractionFirst(extractionSteps) == 1

\* extractionSteps.reduce((best, current) => currentCount > bestCount ? current : best),
\* best so far and the steps from i on
RECURSIVE ReduceBest(_, _, _)
ReduceBest(extractionSteps, best, i) ==
    IF i > Len(extractionSteps) THEN best
    ELSE IF extractionSteps[i] > extractionSteps[best]
    THEN ReduceBest(extractionSteps, i, i + 1)
    ELSE ReduceBest(extractionSteps, best, i + 1)

\* generatePartialResult: the extraction step whose data is returned
bestExtraction(extractionSteps) == ReduceBest(extractionSteps, 1, 2)

\* mutant of FoundItems: the final extraction is taken to have found items
FoundItemsAlways(finalExtractionResult) == TRUE

\* finalExtractionResult.items && finalExtractionResult.items.length > 0
FoundItems(finalExtractionResult) == finalExtractionResult = "items"

\* performIntelligentExtraction on the body settles: with items the task is
\* completed; without, generatePartialResult returns the best recorded
\* extraction or asks the model for a summary
WebAgent_finalExtraction(r) ==
    /\ wa.pc = "finalExtraction"
    /\ LET w == [wa EXCEPT !.finalExtractions = wa.finalExtractions + 1,
                           !.finalFound = (r = "items")]
       IN  wa' = CASE FoundItems(r) -> Completed(w, "Completed via final extraction")
                   [] w.extractionSteps # <<>> ->
                        [w EXCEPT !.pc = "finally", !.status = "Partially Complete",
                                  !.bestStep = bestExtraction(w.extractionSteps)]
                   [] OTHER -> [w EXCEPT !.pc = "summary"]

\* the summary model call of generatePartialResult settles; either way the
\* status is Incomplete
WebAgent_summary(ok) ==
    /\ wa.pc = "summary"
    /\ wa' = [wa EXCEPT !.pc = "finally", !.status = "Incomplete",
                        !.modelCalls = wa.modelCalls + 1,
                        !.summaryCalls = wa.summaryCalls + 1]

\* finally: browser.close() is awaited and settles; a rejection replaces the
\* return value by an exception
WebAgent_close(ok) ==
    /\ wa.pc = "finally"
    /\ wa' = IF MustClose(wa)
             THEN [wa EXCEPT !.pc = "done", !.closeCalls = wa.closeCalls + 1,
                             !.browser = IF ok THEN "closed" ELSE wa.browser,
                             !.outcome = IF ok THEN "returned" ELSE "threw"]
             ELSE [wa EXCEPT !.pc = "done", !.outcome = "returned"]

ActOutcomes == {"failed", "ok", "okItems", "navigated", "navigatedThrow"}

NextWebAgent ==
    \/ (\E u \in BOOLEAN, t \in BOOLEAN : WebAgent_start(u, t)) /\ UNCHANGED besidesWeb
    \/ (\E ok \in BOOLEAN : WebAgent_launch(ok)) /\ UNCHANGED besidesWeb
    \/ (\E ok \in BOOLEAN : WebAgent_setup(ok)) /\ UNCHANGED besidesWeb
    \/ (\E ok \in BOOLEAN : WebAgent_goto(ok)) /\ UNCHANGED besidesWeb
    \/ (\E ok \in BOOLEAN : WebAgent_settle(ok)) /\ UNCHANGED besidesWeb
    \/ (\E d \in Decisions : WebAgent_decide(d)) /\ UNCHANGED besidesWeb
    \/ (\E r \in {"items", "empty", "failed"} : WebAgent_extract(r)) /\ UNCHANGED besidesWeb
    \/ (\E r \in ActOutcomes, n \in 0..MaxFound : WebAgent_act(r, n)) /\ UNCHANGED besidesWeb
    \/ (\E r \in {"items", "empty"} : WebAgent_finalExtraction(r)) /\ UNCHANGED besidesWeb
    \/ (\E ok \in BOOLEAN : WebAgent_summary(ok)) /\ UNCHANGED besidesWeb
    \/ (\E ok \in BOOLEAN : WebAgent_close(ok)) /\ UNCHANGED besidesWeb

SpecWebAgent == Init /\ [][NextWebAgent]_vars

\* every awaited call of the run settles
SpecWebAgentFair == SpecWebAgent /\ WF_vars(NextWebAgent)

(***************************************************************************)
(* The decision step of the Browser Automation Agent: one getNextAction    *)
(* call.  gna holds                                                        *)
(*   allSteps              the action type of each recorded step, oldest   *)
(*                         first                                           *)
(*   hasLoadingIndicators  pageState.metrics?.hasLoadingIndicators         *)
(*   outcome               how the model path ended                        *)
(*   result                the decision returned                           *)
(***************************************************************************)
ActionTypes == {"scroll", "wait", "extract", "click"}

\* the recorded steps a call can be given
StepHistories == UNION { [1..n -> ActionTypes] : n \in 0..MaxSteps }

\* allSteps.slice(-3).map(step => step.action?.type)
lastActions(allSteps) ==
    SubSeq(allSteps, IF Len(allSteps) > 3 THEN Len(allSteps) - 2 ELSE 1, Len(allSteps))

\* mutant of ScrolledTwice: the two most recent actions are both scrolls
ScrolledTwiceInARow(allSteps) ==
    /\ Len(allSteps) >= 2
    /\ allSteps[Len(allSteps)] = "scroll"
    /\ allSteps[Len(allSteps) - 1] = "scroll"

\* lastActions.filter(action => action === 'scroll').length >= 2
ScrolledTwice(allSteps) ==
    Cardinality({ i \in DOMAIN lastActions(allSteps) : lastActions(allSteps)[i] = "scroll" }) >= 2

\* generateIntelligentFallback: confidence in tenths
generateIntelligentFallback(pageState, allSteps) ==
    IF ScrolledTwice(allSteps)
    THEN [isCompleted |-> FALSE, confidence |-> 3, type |-> "extract"]
    ELSE IF pageState.hasLoadingIndicators
    THEN [isCompleted |-> FALSE, confidence |-> 5, type |-> "wait"]
    ELSE [isCompleted |-> FALSE, confidence |-> 2, type |-> "scroll"]

\* what a model answer that parses and holds an action type can say
ParsedDecisions ==
    { [isCompleted |-> c, confidence |-> f, type |-> t] :
        c \in BOOLEAN, f \in {3, 9}, t \in ActionTypes }

\* catch (error) of getNextAction
FallBack(g, outcome) ==
    [g EXCEPT !.pc = "done", !.outcome = outcome,
              !.result = generateIntelligentFallback(g, g.allSteps)]

\* callLangChain settles: a rejection is caught and answered by the fallback
getNextAction_model(ok) ==
    /\ gna.pc = "model"
    /\ gna' = IF ok THEN [gna EXCEPT !.pc = "parse"] ELSE FallBack(gna, "modelError")

\* parseAIResponse and the structure check: "unparseable" (parseAIResponse
\* throws after both strategies), "noAction" (no action or no action.type),
\* "parsed" (the parsed response is returned)
getNextAction_parse(outcome, d) ==
    /\ gna.pc = "parse"
    /\ gna' = IF outcome = "parsed"
              THEN [gna EXCEPT !.pc = "done", !.outcome = outcome, !.result = d]
              ELSE FallBack(gna, outcome)

InitDecide ==
    /\ InitDispatcher /\ InitGatewayIdle /\ InitWebIdle /\ InitFormatterIdle
    /\ InitContentIdle /\ InitConcurrentIdle /\ InitHistoryIdle
    /\ \E allSteps \in StepHistories, l \in BOOLEAN :
        gna = [NoNextAction EXCEPT !.pc = "model", !.allSteps = allSteps,
                                   !.hasLoadingIndicators = l]

NextDecide ==
    \/ (\E ok \in BOOLEAN : getNextAction_model(ok)) /\ UNCHANGED besidesDecide
    \/ (\E outcome \in {"unparseable", "noAction", "parsed"}, d \in ParsedDecisions :
            getNextAction_parse(outcome, d)) /\ UNCHANGED besidesDecide

SpecDecide == InitDecide /\ [][NextDecide]_vars

(***************************************************************************)
(* The Result Formatter: one ResponseFormatterAgent call.  fmt holds        *)
(*   k            number of products in the source payload                 *)
(*   shape        where the products sit in agentResult: "result" for      *)
(*                agentResult.result.extractedData.products, "top" for     *)
(*                agentResult.extractedData.products                       *)
(*   promptGiven  userPrompt and agentResult are truthy                    *)
(*   paramsGiven  params is an object (not null or undefined)              *)
(*   wellFormed   products is an array (else some other truthy value)      *)
(*   markers      bullet markers counted in the model's output             *)
(*   path         "model", "direct" (createDirectFormattedResponse),        *)
(*                "fallback" (createFallbackResponse) or "static" (the      *)
(*                fixed message when the fallback throws as well)          *)
(*   entries      itemized entries in the response returned                *)
(*   isCompleted, responseEmpty   of the result returned                   *)
(***************************************************************************)
FallbackLimit == 10

Shapes == {"result", "top"}

\* responseProductCount < expectedProductCount * 0.8
LooksTruncated(expectedProductCount, responseProductCount) ==
    5 * responseProductCount < 4 * expectedProductCount

\* createDirectFormattedResponse: one entry per product
createDirectFormattedResponse(k) == k

\* createFallbackResponse: the first ten products of
\* agentResult.result.extractedData.products, none when the products sit elsewhere
createFallbackResponse(k, shape) ==
    IF shape = "result" THEN (IF k < FallbackLimit THEN k ELSE FallbackLimit) ELSE 0

\* the result the catch block returns: createFallbackResponse's text, or the
\* fixed message when createFallbackResponse throws (params is not an object,
\* or products.slice is not a function)
CatchBlock(f) ==
    IF ~f.paramsGiven \/ (f.promptGiven /\ f.shape = "result" /\ ~f.wellFormed)
    THEN [f EXCEPT !.pc = "done", !.path = "static", !.entries = 0,
                   !.isCompleted = TRUE, !.responseEmpty = FALSE]
    ELSE [f EXCEPT !.pc = "done", !.path = "fallback",
                   !.entries = IF f.promptGiven THEN createFallbackResponse(f.k, f.shape)
                               ELSE 0,
                   !.isCompleted = TRUE, !.responseEmpty = FALSE]

\* ResponseFormatterAgent(params) up to its model call; destructuring params
\* that is not an object throws, and so does a missing userPrompt or
\* agentResult: the catch block answers
ResponseFormatterAgent_start(k, shape, promptGiven, paramsGiven, wellFormed) ==
    /\ fmt.pc = "idle"
    /\ LET f == [fmt EXCEPT !.k = k, !.shape = shape, !.promptGiven = promptGiven,
                            !.paramsGiven = paramsGiven, !.wellFormed = wellFormed]
       IN  fmt' = IF paramsGiven /\ promptGiven
                  THEN [f EXCEPT !.pc = "calling"]
                  ELSE CatchBlock(f)

\* the model call resolves with a text of m bullet markers, blank when it is
\* empty after trim(); the completeness check applies when products is a
\* non-empty array
ResponseFormatterAgent_formatted(m, blank) ==
    /\ fmt.pc = "calling"
    /\ blank => m = 0
    /\ fmt' = IF fmt.wellFormed /\ fmt.k > 0 /\ LooksTruncated(fmt.k, m)
              THEN [fmt EXCEPT !.pc = "done", !.markers = m, !.path = "direct",
                               !.entries = createDirectFormattedResponse(fmt.k),
                               !.isCompleted = TRUE, !.responseEmpty = FALSE]
              ELSE [fmt EXCEPT !.pc = "done", !.markers = m, !.path = "model",
                               !.entries = m,
                               !.isCompleted = TRUE, !.responseEmpty = blank]

\* the model call rejects, or resolves with a value that is not a string:
\* the catch block answers
ResponseFormatterAgent_failed ==
    /\ fmt.pc = "calling"
    /\ fmt' = CatchBlock(fmt)

NextFormatter ==
    \/ (\E k \in 0..MaxItems, sh \in Shapes, pg \in BOOLEAN, ps \in BOOLEAN, wf \in BOOLEAN :
            ResponseFormatterAgent_start(k, sh, pg, ps, wf)) /\ UNCHANGED besidesFormatter
    \/ (\E m \in 0..(MaxItems + 1), blank \in BOOLEAN :
            ResponseFormatterAgent_formatted(m, blank)) /\ UNCHANGED besidesFormatter
    \/ ResponseFormatterAgent_failed /\ UNCHANGED besidesFormatter

SpecFormatter == Init /\ [][NextFormatter]_vars

(***************************************************************************)
(* The Content Governor: ContentManager.  A text is the sequence of its    *)
(* characters; "a" stands for any character that is neither white space    *)
(* nor a period.                                                           *)
(***************************************************************************)
Alphabet == {"a", ".", " ", "\n"}

IsSpace(ch) == ch \in {" ", "\n"}

\* '\n... [Content truncated for token limits]'
Marker ==
    <<"\n", ".", ".", ".", " ">> \o <<"a", "a", "a", "a", "a", "a", "a", "a", " ">>
    \o <<"a", "a", "a", "a", "a", "a", "a", "a", "a", " ">> \o <<"a", "a", "a", " ">>
    \o <<"a", "a", "a", "a", "a", " ">> \o <<"a", "a", "a", "a", "a", "a", "a">>

\* mutant of Words: every character that is not white space counts as a word
WordsPerCharacter(text) ==
    { <<i, i>> : i \in {j \in 1..Len(text) : ~IsSpace(text[j])} }

\* text.split(/\s+/).filter(word => word.length > 0): the words of the text,
\* each given by the positions of its first and last character
Words(text) ==
    { <<i, j>> \in (1..Len(text)) \X (1..Len(text)) :
        /\ i <= j
        /\ \A k \in i..j : ~IsSpace(text[k])
        /\ i = 1 \/ IsSpace(text[i - 1])
        /\ j = Len(text) \/ IsSpace(text[j + 1]) }

\* Math.ceil(x / d) for integers x >= 0, d > 0
CeilDiv(x, d) == (x + d - 1) \div d

\* estimateTokens(text): Math.ceil((words.length * 1.3 + text.length / 4) / 2)
estimateTokens(text) ==
    IF ~text.isString \/ text.chars = <<>> THEN 0
    ELSE CeilDiv(26 * Cardinality(Words(text.chars)) + 5 * Len(text.chars), 40)

\* mutant of validateRequestSize: every request is taken to be within the limit
validateRequestSizeAlwaysValid(this, prompt, content) ==
    [ isValid |-> TRUE,
      totalTokens |-> estimateTokens(prompt) + estimateTokens(content) ]

\* validateRequestSize(prompt, content)
validateRequestSize(this, prompt, content) ==
    [ isValid |-> estimateTokens(prompt) + estimateTokens(content) <= this.maxTokensPerRequest,
      totalTokens |-> estimateTokens(prompt) + estimateTokens(content) ]

\* String.prototype.lastIndexOf for one character: a 0-based index, or -1
LastIndexOf(text, ch) ==
    LET hits == {i \in 1..Len(text) : text[i] = ch}
    IN  IF hits = {} THEN -1 ELSE (CHOOSE i \in hits : \A j \in hits : j <= i) - 1

\* String.prototype.trim
RECURSIVE TrimStart(_)
TrimStart(text) ==
    IF text # <<>> /\ IsSpace(Head(text)) THEN TrimStart(Tail(text)) ELSE text

RECURSIVE TrimEnd(_)
TrimEnd(text) ==
    IF text # <<>> /\ IsSpace(text[Len(text)])
    THEN TrimEnd(SubSeq(text, 1, Len(text) - 1)) ELSE text

Trim(text) == TrimEnd(TrimStart(text))

\* mutant of CutPoint: the cut is made one character late
CutPointLate(truncated, targetLength) == targetLength + 1

\* the truncation point: after the last period, at the last newline or at the
\* last space if that lies beyond 80% of targetLength, else targetLength
CutPoint(truncated, targetLength) ==
    IF 5 * LastIndexOf(truncated, ".") > 4 * targetLength
    THEN LastIndexOf(truncated, ".") + 1
    ELSE IF 5 * LastIndexOf(truncated, "\n") > 4 * targetLength
    THEN LastIndexOf(truncated, "\n")
    ELSE IF 5 * LastIndexOf(truncated, " ") > 4 * targetLength
    THEN LastIndexOf(truncated, " ")
    ELSE targetLength

\* truncateContent(content, maxLength): maxLength 0 stands for null as well
truncateContent(this, content, maxLength) ==
    IF ~content.isString \/ content.chars = <<>> THEN <<>>
    ELSE LET targetLength == IF maxLength # 0 THEN maxLength ELSE this.maxContentLength
             text == content.chars
         IN  IF Len(text) <= targetLength THEN text
             ELSE LET cutPoint == CutPoint(SubSeq(text, 1, targetLength), targetLength)
                  IN  Trim(SubSeq(text, 1, cutPoint))
                        \o (IF cutPoint < Len(text) THEN Marker ELSE <<>>)

\* what prepareForLLM returns with the given content, validation and stage
Prepared(systemPrompt, userContent, validation, stage) ==
    [ systemPrompt |-> systemPrompt, userContent |-> userContent,
      isValid |-> validation.isValid, totalTokens |-> validation.totalTokens,
      wasOptimized |-> stage # "none", optimizationStage |-> stage,
      warning |-> stage = "aggressive" /\ ~validation.isValid ]

\* prepareForLLM(systemPrompt, userContent) for string content
prepareForLLM(this, systemPrompt, contentString) ==
    LET validation == validateRequestSize(this, Str(systemPrompt), Str(contentString))
        stage1 == IF Len(contentString) > this.maxContentLength
                  THEN truncateContent(this, Str(contentString), 0)
                  ELSE contentString
        secondValidation == validateRequestSize(this, Str(systemPrompt), Str(stage1))
        aggressiveLength == this.maxContentLength \div 2
        stage3 == truncateContent(this, Str(contentString), aggressiveLength)
        finalValidation == validateRequestSize(this, Str(systemPrompt), Str(stage3))
    IN  IF validation.isValid
        THEN Prepared(systemPrompt, contentString, validation, "none")
        ELSE IF secondValidation.isValid
        THEN Prepared(systemPrompt, stage1, secondValidation, "truncated")
        ELSE Prepared(systemPrompt, stage3, finalValidation, "aggressive")

\* all texts of at most n characters
TextsUpTo(n) == UNION { [1..m -> Alphabet] : m \in 0..n }

\* the first n characters of the endless repetition of piece
Repeated(piece, n) == [i \in 1..n |-> piece[((i - 1) % Len(piece)) + 1]]

Pieces == { <<"a">>, <<"a", " ">>, <<"a", "a", ".", " ">>, <<"a", "a", "a", "\n">> }

PatternTexts == { Repeated(piece, n) : piece \in Pieces, n \in 0..MaxPatternLen }

Suffixes == TextsUpTo(2) \ {<<>>}

\* the values estimateTokens is given
EstimateInputs == {Str(t) : t \in TextsUpTo(MaxLen)} \cup {NonString}

\* the values truncateContent is given, and the lengths asked for (0: none given)
TruncateInputs == {Str(t) : t \in TextsUpTo(MaxLen) \cup PatternTexts} \cup {NonString}

TruncateLengths == {0, 1, 2, 3, 6, 7, 10}

\* the system prompts prepareForLLM is given
SystemPrompts == {<<>>, <<"a", " ", "a">>}

\* estimateTokens is called on a value, and on the string with suffix appended
estimateTokens_call ==
    /\ cm.pc = "idle"
    /\ \E input \in EstimateInputs, suffix \in Suffixes :
        cm' = [cm EXCEPT !.pc = "done", !.op = "estimateTokens", !.input = input,
                         !.suffix = suffix,
                         !.tokens = estimateTokens(input),
                         !.tokensAppended = estimateTokens(Str(input.chars \o suffix))]

\* truncateContent is called
truncateContent_call ==
    /\ cm.pc = "idle"
    /\ \E input \in TruncateInputs, maxLength \in TruncateLengths :
        cm' = [cm EXCEPT !.pc = "done", !.op = "truncateContent", !.input = input,
                         !.maxLength = maxLength,
                         !.text = truncateContent(cm.this, input, maxLength)]

\* prepareForLLM is called
prepareForLLM_call ==
    /\ cm.pc = "idle"
    /\ \E systemPrompt \in SystemPrompts, userContent \in PatternTexts :
        cm' = [cm EXCEPT !.pc = "done", !.op = "prepareForLLM",
                         !.systemPrompt = systemPrompt, !.input = Str(userContent),
                         !.prepared = prepareForLLM(cm.this, systemPrompt, userContent)]

InitContent ==
    /\ InitDispatcher /\ InitGatewayIdle /\ InitWebIdle /\ InitFormatterIdle
    /\ InitAuxIdle
    /\ \E this \in Configurations : cm = NoContentCall(this)

NextContent ==
    \/ estimateTokens_call /\ UNCHANGED besidesContent
    \/ truncateContent_call /\ UNCHANGED besidesContent
    \/ prepareForLLM_call /\ UNCHANGED besidesContent

SpecContent == InitContent /\ [][NextContent]_vars

(***************************************************************************)
(* createContentChunks, one loop iteration a step.  cm holds in addition   *)
(*   input       content                                                   *)
(*   chunkSize   chunkSize                                                 *)
(*   currentPos  currentPos of the loop (0-based)                          *)
(*   chunks      the chunks pushed so far, and at the end the list returned*)
(***************************************************************************)
\* String.prototype.lastIndexOf(ch, fromIndex): the last 0-based index at or
\* before fromIndex that holds ch, or -1
LastIndexOfFrom(text, ch, fromIndex) ==
    LET hits == {i \in 1..Len(text) : text[i] = ch /\ i - 1 <= fromIndex}
    IN  IF hits = {} THEN -1 ELSE (CHOOSE i \in hits : \A j \in hits : j <= i) - 1

\* the end of the chunk that starts at currentPos: Math.min(currentPos +
\* chunkSize, content.length), moved to a period or newline that lies beyond
\* 0.8 of the chunk
ChunkEnd(content, currentPos, chunkSize) ==
    LET chunkEnd    == IF currentPos + chunkSize < Len(content)
                       THEN currentPos + chunkSize ELSE Len(content)
        lastPeriod  == LastIndexOfFrom(content, ".", chunkEnd)
        lastNewline == LastIndexOfFrom(content, "\n", chunkEnd)
    IN  IF chunkEnd < Len(content)
        THEN IF 10 * lastPeriod > 10 * currentPos + 8 * chunkSize THEN lastPeriod + 1
             ELSE IF 10 * lastNewline > 10 * currentPos + 8 * chunkSize THEN lastNewline
             ELSE chunkEnd
        ELSE chunkEnd

\* chunks.filter(chunk => chunk.length > 0)
NonEmptyChunks(chunks) == SelectSeq(chunks, LAMBDA chunk : Len(chunk.chars) > 0)

\* the contents and chunk sizes createContentChunks is given
ChunkInputs == {Str(t) : t \in TextsUpTo(MaxLen) \cup PatternTexts} \cup {NonString}

ChunkSizes == {1, 2, 5, 10}

\* createContentChunks is called: a falsy content or one no longer than
\* chunkSize is returned as the only chunk, else the loop is entered
createContentChunks_call ==
    /\ cm.pc = "idle"
    /\ \E content \in ChunkInputs, chunkSize \in ChunkSizes :
        cm' = IF ~content.isString \/ content.chars = <<>> \/ Len(content.chars) <= chunkSize
              THEN [cm EXCEPT !.pc = "done", !.op = "createContentChunks",
                              !.input = content, !.chunkSize = chunkSize,
                              !.chunks = <<content>>]
              ELSE [cm EXCEPT !.pc = "loop", !.op = "createContentChunks",
                              !.input = content, !.chunkSize = chunkSize]

\* one pass of while (currentPos < content.length), or the filter and return
\* after it
createContentChunks_loop ==
    /\ cm.pc = "loop"
    /\ LET content  == cm.input.chars
           chunkEnd == ChunkEnd(content, cm.currentPos, cm.chunkSize)
       IN  cm' = IF cm.currentPos < Len(content)
                 THEN [cm EXCEPT !.chunks = Append(cm.chunks,
                                       Str(Trim(SubSeq(content, cm.currentPos + 1, chunkEnd)))),
                                 !.currentPos = chunkEnd]
                 ELSE [cm EXCEPT !.pc = "done", !.chunks = NonEmptyChunks(cm.chunks)]

NextChunks ==
    \/ createContentChunks_call /\ UNCHANGED besidesContent
    \/ createContentChunks_loop /\ UNCHANGED besidesContent

SpecChunks == InitContent /\ [][NextChunks]_vars

\* every pass of the loop runs to its end
SpecChunksFair == SpecChunks /\ WF_vars(NextChunks)

(***************************************************************************)
(* Concurrent tasks on the one AgentManager.  Each entry of tasks is a      *)
(* routeToAgent call made by a task of its own; the calls interleave at    *)
(* their awaits and share this.activeAgents.  An entry holds               *)
(*   agent   agentName                                                     *)
(*   params  the parameter names given a truthy value                      *)
(*   depth   remainingDepth                                                *)
(*   pc      "validate", "enhance" (awaiting enhanceParameters), "exec"    *)
(*           (awaiting the executor), "await" (awaiting the BaseAgent call *)
(*           or the recursive executeTask made with the result),           *)
(*           "return"                                                      *)
(*   awaited the value returned came from that awaited call                *)
(***************************************************************************)
\* what the steps of the concurrent calls leave alone
besidesActiveAgents ==
    <<phase, stack, final, taskHistory, k0, lastCall, routerCalls, finalCalls,
      enhanceCalls, execLog, continuations, failedSeen, allRoute, objs,
      gatewayVars, webVars, formatterVars, contentVars, decideVars, historyVars>>

\* getAvailableAgents: isActive of the entry of agentName
isActive(agentName) == agentName \in activeAgents

\* a task reaches routeToAgent for WebAgent
routeToAgentCall_begin(params, remainingDepth) ==
    /\ Len(tasks) < MaxTasks
    /\ tasks' = Append(tasks, [agent |-> "WebAgent", params |-> params,
                               depth |-> remainingDepth, pc |-> "validate",
                               awaited |-> FALSE])
    /\ UNCHANGED activeAgents

\* the synchronous head of call t: with no parameter missing the executor is
\* marked active and called
routeToAgentCall_validate(t) ==
    /\ t \in 1..Len(tasks) /\ tasks[t].pc = "validate"
    /\ IF MissingParams(getAgentInfo(tasks[t].agent), tasks[t].params) # {}
       THEN /\ tasks' = [tasks EXCEPT ![t].pc = "enhance"]
            /\ UNCHANGED activeAgents
       ELSE /\ tasks' = [tasks EXCEPT ![t].pc = "exec"]
            /\ activeAgents' = activeAgents \cup {tasks[t].agent}

\* the enhanceParameters call of call t answers: parameters still missing
\* throw into the catch block, which deletes agentName from activeAgents
routeToAgentCall_enhance(t, e) ==
    /\ t \in 1..Len(tasks) /\ tasks[t].pc = "enhance"
    /\ e.truthy \cap e.falsy = {}
    /\ LET params == MergeParams(tasks[t].params, e)
       IN  IF MissingParams(getAgentInfo(tasks[t].agent), params) # {}
           THEN /\ tasks' = [tasks EXCEPT ![t].pc = "return", ![t].params = params]
                /\ activeAgents' = activeAgents \ {tasks[t].agent}
           ELSE /\ tasks' = [tasks EXCEPT ![t].pc = "exec", ![t].params = params]
                /\ activeAgents' = activeAgents \cup {tasks[t].agent}

\* the executor call of call t answers with outcome o: an exception or a
\* result that is returned as it is runs the finally block; any other result
\* is followed by an awaited BaseAgent call or recursive executeTask
routeToAgentCall_exec(t, o) ==
    /\ t \in 1..Len(tasks) /\ tasks[t].pc = "exec"
    /\ LET result == WebAgentResult(o)
       IN  IF o # "throw" /\ (ShouldContinue(result, tasks[t].depth) \/ ShouldFormulate(result))
           THEN /\ tasks' = [tasks EXCEPT ![t].pc = "await"]
                /\ UNCHANGED activeAgents
           ELSE /\ tasks' = [tasks EXCEPT ![t].pc = "return"]
                /\ activeAgents' = activeAgents \ {tasks[t].agent}

\* the call awaited after the executor settles and call t returns: finally
routeToAgentCall_settle(t) ==
    /\ t \in 1..Len(tasks) /\ tasks[t].pc = "await"
    /\ tasks' = [tasks EXCEPT ![t].pc = "return", ![t].awaited = TRUE]
    /\ activeAgents' = activeAgents \ {tasks[t].agent}

NextConcurrent ==
    \/ (\E params \in {ParamNames, {"url"}}, remainingDepth \in {0, 1} :
            routeToAgentCall_begin(params, remainingDepth)) /\ UNCHANGED besidesActiveAgents
    \/ (\E t \in 1..MaxTasks : routeToAgentCall_validate(t)) /\ UNCHANGED besidesActiveAgents
    \/ (\E t \in 1..MaxTasks, e \in Enhancements : routeToAgentCall_enhance(t, e))
          /\ UNCHANGED besidesActiveAgents
    \/ (\E t \in 1..MaxTasks, o \in ExecOutcomes : routeToAgentCall_exec(t, o))
          /\ UNCHANGED besidesActiveAgents
    \/ (\E t \in 1..MaxTasks : routeToAgentCall_settle(t)) /\ UNCHANGED besidesActiveAgents

SpecConcurrent == Init /\ [][NextConcurrent]_vars

(***************************************************************************)
(* The task history and its readers.  Finished tasks store their records   *)
(* in this.taskHistory; getTaskHistory(limit) is called in between.        *)
(***************************************************************************)
\* what the steps of this section leave alone
besidesTaskHistory ==
    <<phase, stack, final, activeAgents, k0, lastCall, routerCalls, finalCalls,
      enhanceCalls, execLog, continuations, failedSeen, allRoute, objs,
      gatewayVars, webVars, formatterVars, contentVars, decideVars, concurrentVars>>

\* the agentChain of the records tasks store
Chains == { <<"BaseAgent">>, <<"BaseAgent", "WebAgent">>,
            <<"BaseAgent", "WebAgent", "BaseAgent (Final)">> }

\* Array.prototype.slice(start): a negative start counts from the end, and
\* the start is clamped to the array
slice(array, start) ==
    LET len == Len(array)
        k   == IF start < 0
               THEN (IF len + start > 0 THEN len + start ELSE 0)
               ELSE (IF start < len THEN start ELSE len)
    IN  SubSeq(array, k + 1, len)

\* getTaskHistory(limit): this.taskHistory.slice(-limit)
getTaskHistory(history, limit) == slice(history, 0 - limit)

\* a task finishes and stores its record
executeTask_store(agentChain) ==
    /\ Len(taskHistory) < MaxHistory
    /\ taskHistory' = taskHistory_push(taskHistory, agentChain)
    /\ UNCHANGED query

\* getTaskHistory(limit) is called and returns
getTaskHistory_call(limit) ==
    /\ query' = [pc |-> "done", limit |-> limit,
                 result |-> getTaskHistory(taskHistory, limit)]
    /\ UNCHANGED taskHistory

NextHistory ==
    \/ (\E agentChain \in Chains : executeTask_store(agentChain)) /\ UNCHANGED besidesTaskHistory
    \/ (\E limit \in 0..(MaxHistory + 1) : getTaskHistory_call(limit))
          /\ UNCHANGED besidesTaskHistory

SpecHistory == Init /\ [][NextHistory]_vars

(***************************************************************************)
(* Properties of the dispatcher and the router.                            *)
(***************************************************************************)
Done == phase = "done"

Outcomes == {execLog[i].outcome : i \in 1..Len(execLog)}

PartialOutcomes == {"Partially Complete", "Incomplete"}

\* the scenario of the routing depth guard: the model behind the Router has
\* answered every prompt with a Route to WebAgent (url and task given), and the
\* executor, invoked at least once, has never failed and never completed
AlwaysRouteNeverComplete ==
    /\ k0 >= 1
    /\ allRoute
    /\ execLog # <<>>
    /\ Outcomes \subseteq PartialOutcomes

\* C1 as stated: in that scenario the task ends with the 'Maximum routing depth
\* exceeded' error after exactly k continuations
C1_DepthErrorAfterK ==
    (Done /\ AlwaysRouteNeverComplete) => (final.message = "depth" /\ continuations = k0)

\* C1 amended: in that scenario the Dispatcher performs at most k - 1 recursive
\* continuations (never more than k), in fact at most one, because the Router
\* refuses the executor once it is in failedAgents; the task ends with a completed,
\* Router-formulated answer and not with the depth-exceeded error
C1_BoundedContinuations ==
    AlwaysRouteNeverComplete =>
        /\ continuations <= k0 - 1
        /\ continuations <= 1
        /\ Done => /\ final.message # "depth"
                   /\ final.isCompleted
                   /\ final.finallyFormulated
                   /\ continuations = (IF k0 >= 2 THEN 1 ELSE 0)

C1_Witness ==
    Done /\ AlwaysRouteNeverComplete /\ k0 = MaxDepth /\ continuations = 1

\* C2: an executor is never invoked once it has appeared in a failedAgents list
\* of the task, and no Route the Router returns names an executor that is in the
\* failedAgents of the progress it was called with
C2_NoRepeatFailedExecutor ==
    /\ \A i \in 1..Len(execLog) : execLog[i].agent \notin execLog[i].failedBefore
    /\ (lastCall.ans # "none" /\ ~lastCall.decision.isCompleted)
            => lastCall.decision.nextAgent \notin lastCall.failed

\* the executor ran and was put in failedAgents, and a later Route naming it was refused
C2_Witness ==
    /\ Len(execLog) = 1
    /\ execLog[1].agent \in lastCall.failed
    /\ lastCall.ans = "route" /\ lastCall.nextAgent = execLog[1].agent
    /\ ~lastCall.final
    /\ lastCall.decision.flag = "fallbackResponse"

\* C3: a BaseAgent call made with progress.finalFormulation set returns a Direct
\* decision whatever the model answered; when the model was asked (the prompt is
\* a non-empty string) and answered with a Route, the Route is overridden by the
\* deterministic response built from the prior result held in progress; and no
\* executor is invoked after a final-formulation call
C3_FinalFormulationIsDirect ==
    /\ (lastCall.ans # "none" /\ lastCall.final) =>
          /\ lastCall.decision.isCompleted
          /\ lastCall.decision.nextAgent = "undef"
          /\ (lastCall.valid /\ lastCall.ans = "route") =>
                /\ lastCall.decision.response = "detailed"
                /\ lastCall.decision.basis = lastCall.last
                /\ lastCall.decision.flag = "forcedCompletion"
    /\ \A i \in 1..Len(execLog) : execLog[i].finalCallsBefore = 0

\* the model answered Route in a final formulation after an executor result
C3_Witness ==
    /\ lastCall.final /\ lastCall.valid /\ lastCall.ans = "route" /\ lastCall.nextAgent = "WebAgent"
    /\ lastCall.last = "WebAgent"
    /\ lastCall.decision.flag = "forcedCompletion"

\* C4 as stated: when an executor was invoked (and returned), the value the
\* top-level executeTask returns is a Router-formulated answer, never the
\* executor's raw result object
C4_NeverRawResult ==
    (Done /\ execLog # <<>> /\ "throw" \notin Outcomes) =>
        ~(final.origin = "WebAgent" /\ ~final.finallyFormulated)

\* C5 as stated: a result returned on a failure path (model error, executor fatal
\* error, incomplete executor result, missing parameters, unknown executor, depth
\* exhaustion) has isCompleted = true and carries a message
C5_FailureIsCompleted ==
    (Done /\ (final.error \/ Outcomes \cap ({"fatal", "throw"} \cup PartialOutcomes) # {})) =>
        /\ final.isCompleted
        /\ final.response # "undef" \/ final.message # "undef" \/ final.result # "undef"

\* an ordinary-mode call in which the model was asked and answered with a Route
\* naming an executor that is in failedAgents, absent from the registry or planned
RejectedRoute ==
    /\ lastCall.valid /\ ~lastCall.final /\ lastCall.ans = "route"
    /\ \/ lastCall.nextAgent \in lastCall.failed
       \/ getAgentInfo(lastCall.nextAgent) = NoAgent
       \/ getAgentInfo(lastCall.nextAgent).status = "planned"

\* C6 as stated: such a Route is converted to a Direct response synthesized from
\* the prior executor output, and no error is surfaced
C6_RejectedRouteSynthesized ==
    RejectedRoute =>
        /\ lastCall.decision.isCompleted
        /\ lastCall.decision.response = "detailed"
        /\ ~lastCall.decision.error

\* the first executor invocation failed outright with depth remaining
FailedOutright ==
    /\ execLog # <<>>
    /\ execLog[1].outcome = "fatal"
    /\ execLog[1].remainingDepth > 0

\* C7: after an outright executor failure with depth remaining the executor is
\* invoked exactly once, there is no recursive executeTask call and no second
\* routing decision; exactly one further Router call is made, in final-formulation
\* mode with the executor in failedAgents, and its Direct answer is returned
C7_FailureEscalatesOnce ==
    FailedOutright =>
        /\ Len(execLog) = 1
        /\ continuations = 0
        /\ routerCalls - finalCalls = 1
        /\ finalCalls <= 1
        /\ Done => /\ routerCalls = 2 /\ finalCalls = 1
                   /\ lastCall.final
                   /\ execLog[1].agent \in lastCall.failed
                   /\ lastCall.last = execLog[1].agent
                   /\ lastCall.decision.isCompleted
                   /\ final.origin = "BaseAgent"
                   /\ final.isCompleted /\ final.finallyFormulated
                   /\ final.response = lastCall.decision.response

C7_Witness ==
    Done /\ FailedOutright /\ finalCalls = 1 /\ final.finallyFormulated

\* C8 as stated: an incomplete, error-free executor result reporting partial
\* completion, with depth remaining, is escalated to final formulation without a
\* recursive executeTask call
C8_PartialEscalates ==
    \A i \in 1..Len(execLog) :
        (execLog[i].outcome \in PartialOutcomes /\ execLog[i].remainingDepth > 0)
            => continuations = 0

\* C9: an executor is only ever invoked with all its required parameters; when
\* parameters are still missing after the enhancement attempt the executor is not
\* invoked, one enhancement call was made, and the routing step returns an error
\* result naming the missing parameters
C9_MissingParamsNotInvoked ==
    /\ \A i \in 1..Len(execLog) :
          getAgentInfo(execLog[i].agent).requiredParams \subseteq execLog[i].params
    /\ enhanceCalls <= 1
    /\ (Done /\ final.message = "missing") =>
          /\ execLog = <<>>
          /\ enhanceCalls = 1
          /\ final.error /\ final.isCompleted
          /\ final.missing # {}
          /\ final.missing \subseteq getAgentInfo(lastCall.decision.nextAgent).requiredParams

C9_Witness ==
    Done /\ final.message = "missing" /\ final.missing = {"task"} /\ enhanceCalls = 1

\* the most recent BaseAgent call got a model text that is not JSON
UnparseableAnswer == lastCall.valid /\ lastCall.ans = "text"

\* C33 (as amended): when the model's output is not valid JSON, BaseAgent
\* returns a Direct decision and no error; its response is the raw model text
\* when no executor result is at hand and the call is not a final
\* formulation, and otherwise the raw text or the text generated from the
\* executor result that replaced it.
C33_UnparseableIsDirect ==
    UnparseableAnswer =>
        /\ lastCall.decision.origin = "BaseAgent"
        /\ lastCall.decision.isCompleted
        /\ ~lastCall.decision.error
        /\ lastCall.decision.nextAgent = "undef"
        /\ lastCall.decision.response \in {"raw", "detailed", "passthrough"}
        /\ (~lastCall.final /\ lastCall.last = "none") => lastCall.decision.response = "raw"
        /\ lastCall.decision.response # "raw" => (lastCall.final \/ lastCall.last # "none")

\* C33 witness: the first call of a task got a text that is not JSON and
\* answered with it
C33_Witness ==
    /\ UnparseableAnswer
    /\ routerCalls = 1
    /\ ~lastCall.final
    /\ lastCall.last = "none"
    /\ lastCall.decision.isCompleted
    /\ lastCall.decision.response = "raw"

\* C33 as stated: the response of the Direct decision always equals the raw
\* model text.
C33_ResponseIsRawText ==
    UnparseableAnswer =>
        /\ lastCall.decision.isCompleted
        /\ ~lastCall.decision.error
        /\ lastCall.decision.response = "raw"

(***************************************************************************)
(* Properties of the dispatcher's recursion.                               *)
(***************************************************************************)
\* the executeTask frames on the stack, the top-level one excluded
RecursiveCalls == { i \in 2..Len(stack) : stack[i].fn = "executeTask" }

\* the depth guard of executeTask has failed in frame i
GuardFailed(i) == stack[i].out.origin = "AgentManager" /\ stack[i].out.message = "depth"

\* executor results that are incomplete and not failed: routeToAgent continues on them
ContinuingOutcomes == {"Partially Complete", "Incomplete"}

\* C22: from a top-level executeTask with maxRoutingDepth >= 1 no recursive
\* executeTask call is made with maxRoutingDepth <= 0, so the depth guard
\* fails only in the top-level call, for a depth the caller supplied.
C22_NoRecursionAtDepthZero ==
    /\ k0 >= 1 => \A i \in RecursiveCalls : stack[i].depth >= 1
    /\ \A i \in 1..Len(stack) : GuardFailed(i) => (i = 1 /\ Len(stack) = 1 /\ k0 <= 0)
    /\ (phase = "done" /\ final.origin = "AgentManager" /\ final.message = "depth") => k0 <= 0

\* C22 witness: the recursive call with the least depth, 1, is under way
C22_Witness ==
    /\ k0 = 2
    /\ Len(stack) >= 3
    /\ stack[3].fn = "executeTask"
    /\ stack[3].depth = 1
    /\ stack[3].pc = "router"

\* C23: a top-level executeTask(k) with k >= 1 terminates whatever the Router
\* and the executor answer, and at most k executor invocations are made for
\* it: the j-th one is made with at most k - j depth remaining.
C23_TerminatesWithinDepth ==
    /\ [](k0 >= 1 =>
            /\ Len(execLog) <= k0
            /\ \A j \in 1..Len(execLog) :
                   execLog[j].remainingDepth >= 0 /\ execLog[j].remainingDepth + j <= k0)
    /\ (phase = "running" ~> phase = "done")

\* C23 witness: a task of depth 1 has returned after one executor invocation
C23_Witness ==
    /\ phase = "done"
    /\ k0 = 1
    /\ Len(execLog) = 1

ImplementedAgents == { a.name : a \in { b \in AVAILABLE_AGENTS : b.status # "planned" } }

\* C25 as stated: every decision BaseAgent returns is either isCompleted true
\* with a response and no nextAgent, or isCompleted false with a nextAgent that
\* is an implemented registry entry, is not in progress.failedAgents, and with
\* progress.finalFormulation not set
C25_ExactlyOneVariant ==
    routerCalls >= 1 =>
        LET d == lastCall.decision
        IN  \/ d.isCompleted /\ d.response # "undef" /\ d.nextAgent = "undef"
            \/ /\ ~d.isCompleted /\ d.response = "undef"
               /\ d.nextAgent \in ImplementedAgents
               /\ d.nextAgent \notin lastCall.failed
               /\ ~lastCall.final

\* C26: an executor is invoked within an executeTask call only after the
\* Router decision of that call answered Route naming that executor, and when
\* the Router answers Direct executeTask returns that answer and invokes no
\* executor.
C26_RouterFirst ==
    /\ [](\A i \in 1..Len(stack) :
            stack[i].fn = "routeToAgent" =>
                /\ i >= 2
                /\ stack[i - 1].fn = "executeTask"
                /\ stack[i - 1].pc = "awaitRoute"
                /\ stack[i - 1].cur.origin = "BaseAgent"
                /\ ~stack[i - 1].cur.isCompleted
                /\ stack[i - 1].cur.nextAgent = stack[i].agent)
    /\ [][Len(execLog') > Len(execLog) =>
            /\ Len(stack) >= 2
            /\ stack[Len(stack)].fn = "routeToAgent"
            /\ execLog'[Len(execLog')].agent = stack[Len(stack) - 1].cur.nextAgent
            /\ routerCalls >= 1]_vars
    /\ [][(/\ phase = "running" /\ stack # <<>>
           /\ stack[Len(stack)].fn = "executeTask" /\ stack[Len(stack)].pc = "router"
           /\ routerCalls' = routerCalls + 1
           /\ lastCall'.decision.isCompleted) =>
            /\ Len(stack') = Len(stack)
            /\ stack'[Len(stack')].pc = "return"
            /\ stack'[Len(stack')].out = lastCall'.decision
            /\ execLog' = execLog]_vars

\* C26 witness: the executor was invoked after a Route of the Router
C26_Witness ==
    /\ Len(execLog) >= 1
    /\ execLog[1].agent = "WebAgent"
    /\ routerCalls >= 1

\* C34: with concurrent tasks routed to the same executor, the executor is
\* reported active for as long as an invocation of it is in flight.
C34_ActiveWhileInFlight ==
    \A t \in 1..Len(tasks) : tasks[t].pc = "exec" => isActive(tasks[t].agent)

\* C36: executeTask and routeToAgent never modify a progress object they were
\* given: the object passed to every call in progress still holds what it held
\* when it was passed, and no step changes an object that exists (failedAgents,
\* step, finalFormulation and lastAgentResult are set on objects created for
\* the purpose).
C36_ProgressNotModified ==
    /\ [](\A i \in 1..Len(stack) :
            /\ stack[i].ref \in 1..Len(objs)
            /\ objs[stack[i].ref] = stack[i].progress)
    /\ [][\A i \in 1..Len(objs) : i <= Len(objs') /\ objs'[i] = objs[i]]_vars

\* C36 witness: the task returned after a continuation and a final
\* formulation; the objects made for them hold the failed executor, the
\* finalFormulation flag and the result to formulate, the caller's object
\* none of them
C36_Witness ==
    /\ phase = "done"
    /\ Len(objs) >= 3
    /\ objs[1] = Progress({}, FALSE, NoResult)
    /\ \E i \in 2..Len(objs) :
          /\ objs[i].failedAgents = {"WebAgent"}
          /\ ~objs[i].finalFormulation
          /\ objs[i].step = 1
    /\ \E i \in 2..Len(objs) :
          /\ objs[i].finalFormulation
          /\ objs[i].lastAgentResult # NoResult

\* s is t or t with elements appended
IsPrefix(t, s) == Len(t) <= Len(s) /\ SubSeq(s, 1, Len(t)) = t

\* the executeTask call of frame f passed the depth guard
PassedGuard(f) == f.fn = "executeTask" /\ f.pc # "start" /\ ~DepthExceeded(f.depth)

\* C37: every executeTask invocation that passes the depth guard appends
\* exactly one record to taskHistory before it returns (none while it still
\* waits, so a continuation's record comes before its parent's; none when the
\* guard stopped it), a finished task has stored one record per invocation,
\* and a step never changes or removes a record of the history.
C37_OneRecordPerTask ==
    /\ [](\A i \in 1..Len(stack) :
            stack[i].fn = "executeTask" =>
                stack[i].pushes = IF PassedGuard(stack[i]) /\ stack[i].pc = "return"
                                  THEN 1 ELSE 0)
    /\ [](phase = "done" =>
            Len(taskHistory) = IF DepthExceeded(k0) THEN 0 ELSE 1 + continuations)
    /\ [][/\ IsPrefix(taskHistory, taskHistory')
          /\ Len(taskHistory') <= Len(taskHistory) + 1]_vars

\* C37 witness: a continuation has stored its record and returned while its
\* parent executeTask, which has stored none yet, still waits
C37_Witness ==
    /\ Len(stack) = 3
    /\ stack[1].fn = "executeTask" /\ PassedGuard(stack[1]) /\ stack[1].pushes = 0
    /\ stack[3].fn = "executeTask" /\ stack[3].pc = "return" /\ stack[3].pushes = 1
    /\ Len(taskHistory) = 1

\* the routeToAgent call of frame f has not left its try block
RouteInFlight(f) == f.fn = "routeToAgent" /\ f.pc # "return"

\* C38: whenever no routeToAgent call is in flight activeAgents is empty, and
\* an executor is marked active only while a call routed to it is in flight.
C38_ActiveOnlyInFlight ==
    /\ (\A i \in 1..Len(stack) : ~RouteInFlight(stack[i])) => activeAgents = {}
    /\ \A a \in activeAgents :
          \E i \in 1..Len(stack) : RouteInFlight(stack[i]) /\ stack[i].agent = a

\* C38 witness: the task is over, its executor threw, and no executor is
\* marked active
C38_Witness ==
    /\ phase = "done"
    /\ Len(execLog) = 1
    /\ execLog[1].outcome = "throw"
    /\ activeAgents = {}

\* C39: a getTaskHistory(n) call, n >= 0, returns exactly the min(n, history
\* length) most recently appended records, in append order.
C39_MostRecentRecords ==
    [][query'.pc = "done" /\ query' # query =>
         LET len == Len(taskHistory)
             m   == IF query'.limit < len THEN query'.limit ELSE len
         IN  query'.result = SubSeq(taskHistory, len - m + 1, len)]_vars

(***************************************************************************)
(* Properties of the model gateway's key rotation.                         *)
(***************************************************************************)
\* the key draws i .. i + numKeys - 1
Window(i) == i..(i + numKeys - 1)

\* the numKeys key draws starting at draw i were made by numKeys consecutive
\* cloud-backend calls that each returned on their first attempt
ErrorFreeWindow(i) ==
    /\ i \in 1..Len(keyLog)
    /\ i + numKeys - 1 <= Len(keyLog)
    /\ \A j \in Window(i) : /\ calls[keyLog[j].call].state = "returned"
                            /\ calls[keyLog[j].call].attempt = 0

\* C10: over N = numKeys consecutive error-free calls every key is used exactly
\* once, each call takes the cyclic successor of the key of the call before it,
\* and the rotation index after the N calls equals the index before them
C10_RoundRobin ==
    \A i \in 1..Len(keyLog) :
        ErrorFreeWindow(i) =>
            /\ {keyLog[j].key : j \in Window(i)} = 0..(numKeys - 1)
            /\ \A j \in Window(i) \ {i} :
                  keyLog[j].key = (keyLog[j - 1].key + 1) % numKeys
            /\ keyLog[i + numKeys - 1].after = keyLog[i].before

\* a full round of error-free calls that starts in the middle of the key list
C10_Witness ==
    /\ numKeys >= 2
    /\ \E i \in 1..Len(keyLog) : ErrorFreeWindow(i) /\ keyLog[i].before # 0

\* the key draws made on behalf of call c, in order
RECURSIVE DrawsOf(_, _)
DrawsOf(c, log) ==
    IF log = <<>> THEN <<>>
    ELSE IF Head(log).call = c THEN <<Head(log).key>> \o DrawsOf(c, Tail(log))
    ELSE DrawsOf(c, Tail(log))

\* min(3, keyCount)
AttemptLimit == IF numKeys < 3 THEN numKeys ELSE 3

\* C11: a cloud-backend call makes at most min(3, keyCount) attempts; every
\* attempt but the last failed with a quota error and was followed by a retry
\* with the next key of the rotation; a call that returned returns the response
\* of its last attempt, the first that succeeded; a call gives up on quota
\* errors only when its attempts are used up
C11_RetryWithNextKey ==
    /\ \A j \in 1..Len(keyLog) :
          /\ keyLog[j].key = keyLog[j].before
          /\ keyLog[j].after = (keyLog[j].before + 1) % numKeys
          /\ j > 1 => keyLog[j].before = keyLog[j - 1].after
    /\ \A c \in 1..Len(calls) :
          /\ Len(calls[c].keys) <= AttemptLimit
          /\ Len(calls[c].keys) >= 1
          /\ DrawsOf(c, keyLog) = calls[c].keys
          /\ \A j \in 1..(Len(calls[c].keys) - 1) : calls[c].errors[j] = "quota"
          /\ calls[c].state = "invoking" => Len(calls[c].errors) = Len(calls[c].keys) - 1
          /\ calls[c].state = "returned" =>
                /\ Len(calls[c].errors) = Len(calls[c].keys) - 1
                /\ calls[c].response = calls[c].keys[Len(calls[c].keys)]
          /\ (calls[c].state = "threw" /\ calls[c].lastError = "quota") =>
                Len(calls[c].keys) = AttemptLimit

\* keys 1 and 2 answered 429 and key 3 succeeded on attempt 3, with more than
\* three keys configured
C11_Witness ==
    /\ numKeys = 4
    /\ \E c \in 1..Len(calls) :
          /\ calls[c].state = "returned"
          /\ calls[c].keys = <<0, 1, 2>>
          /\ calls[c].errors = <<"quota", "quota">>
          /\ calls[c].response = 2

\* C12: an attempt that fails with an error that is no quota error is the call's
\* last: the call has thrown that error, made no further attempt and took no
\* further key from the rotation
C12_OtherErrorAborts ==
    \A c \in 1..Len(calls) :
        \A j \in 1..Len(calls[c].errors) :
            calls[c].errors[j] = "other" =>
                /\ j = Len(calls[c].errors)
                /\ calls[c].state = "threw"
                /\ calls[c].lastError = "other"
                /\ Len(calls[c].keys) = j
                /\ Len(DrawsOf(c, keyLog)) = j

\* a call aborted on its first attempt although keys and attempts remained, and
\* a later call took the very next key
C12_Witness ==
    /\ numKeys >= 2
    /\ Len(calls) >= 2
    /\ calls[1].state = "threw" /\ calls[1].errors = <<"other">>
    /\ calls[1].keys = <<0>>
    /\ calls[2].keys[1] = 1

\* C19: a resolved batch holds exactly one outcome per request, in request
\* order: success with the call's response where the request's call returned,
\* failure with the call's error where it threw; a failing request does not
\* keep the other requests from their outcomes
C19_BatchSettlesAll ==
    batch.state = "resolved" =>
        /\ Len(batch.results) = Len(batch.requests)
        /\ \A i \in 1..Len(batch.requests) :
              LET call == calls[batch.requests[i]]
                  out  == batch.results[i]
              IN  /\ call.state \in {"returned", "threw"}
                  /\ out.success = (call.state = "returned")
                  /\ out.success => out.data = call.response
                  /\ ~out.success => out.error = call.lastError

\* a batch of two whose first request failed and whose second succeeded
C19_Witness ==
    /\ batch.state = "resolved"
    /\ Len(batch.requests) = 2
    /\ ~batch.results[1].success /\ batch.results[1].error = "other"
    /\ batch.results[2].success

\* C35: within one cloud-backend call no key is used for more than one
\* attempt, also when other calls take keys between its attempts.
C35_NoKeyTwiceInCall ==
    \A c \in 1..Len(calls) :
        \A i \in 1..Len(calls[c].keys), j \in 1..Len(calls[c].keys) :
            i < j => calls[c].keys[i] # calls[c].keys[j]

(***************************************************************************)
(* Properties of the Browser Automation Agent.                             *)
(***************************************************************************)
RunCompleted ==
    /\ ~wa.fatal /\ wa.taskCompleted
    /\ wa.status \in {"finalAnswer", "Completed", "Completed via final extraction"}

RunPartialSummary ==
    /\ ~wa.fatal /\ ~wa.taskCompleted
    /\ wa.status \in {"Partially Complete", "Incomplete"}

RunFatalError == wa.fatal

\* the run threw: a parameter was missing, or browser.close() rejected
TeardownRejected == wa.closeCalls = 1 /\ wa.browser = "open"

C14_BrowserClosedOnce ==
    /\ wa.launches <= 1
    /\ wa.closeCalls <= wa.launches
    /\ wa.pc = "done" => wa.closeCalls = wa.launches
    /\ wa.outcome = "returned" => wa.browser # "open"
    /\ wa.browser = "closed" => wa.closeCalls = 1

\* an exception in the middle of the loop, browser closed afterwards
C14_Witness ==
    /\ wa.outcome = "returned" /\ wa.fatal /\ wa.currentIteration >= 1
    /\ wa.launches = 1 /\ wa.closeCalls = 1 /\ wa.browser = "closed"

RunEnded == wa.pc \in {"finally", "done"} /\ ~wa.fatal /\ wa.status # "none"

\* C27 as stated: a failed action is recorded as a step, and in an iteration
\* i < 8 the loop goes on to iteration i + 1; the run falls through to the
\* final extraction and summary after a failed action only in iteration 8
C27_FailedActionContinues ==
    [][(wa.pc = "act" /\ wa'.actResult = "failed") =>
            /\ wa'.steps = wa.steps + 1
            /\ wa.currentIteration < maxIterations =>
                   (wa'.pc = "decide" /\ wa'.currentIteration = wa.currentIteration + 1)
            /\ wa'.pc = "finalExtraction" => wa.currentIteration = maxIterations]_vars

\* C28: a run that ends without completion while recorded steps hold items
\* returns the data of the recorded step with the most items and makes no
\* model call for the summary; the summary is asked of the model only when
\* no recorded step holds items.
C28_BestExtractionReturned ==
    /\ wa.summaryCalls <= 1
    /\ (wa.pc = "summary" \/ wa.summaryCalls > 0) => wa.extractionSteps = <<>>
    /\ (RunEnded /\ wa.status = "Partially Complete") =>
           /\ ~wa.taskCompleted
           /\ wa.summaryCalls = 0
           /\ wa.bestStep \in 1..Len(wa.extractionSteps)
           /\ \A j \in 1..Len(wa.extractionSteps) :
                  wa.extractionSteps[j] <= wa.extractionSteps[wa.bestStep]
    /\ (RunEnded /\ wa.status = "Incomplete") =>
           /\ ~wa.taskCompleted
           /\ wa.extractionSteps = <<>>
           /\ wa.summaryCalls = 1
    /\ (RunEnded /\ ~wa.taskCompleted) =>
           (wa.extractionSteps # <<>> <=> wa.status = "Partially Complete")

\* C28 witness: of two recorded extractions the later, larger one was returned
C28_Witness ==
    /\ wa.outcome = "returned"
    /\ wa.status = "Partially Complete"
    /\ Len(wa.extractionSteps) >= 2
    /\ wa.extractionSteps[1] < wa.extractionSteps[2]
    /\ wa.bestStep = 2

\* C29: a loop that exits without completion is followed by exactly one final
\* extraction pass; with items found the run returns isCompleted true with the
\* extracted data, without it returns isCompleted false with the summary of
\* the recorded steps; a completed loop is followed by none.
C29_OneFinalExtraction ==
    /\ wa.finalExtractions <= 1
    /\ wa.pc = "finalExtraction" => (~wa.taskCompleted /\ wa.finalExtractions = 0)
    /\ wa.pc = "summary" => (wa.finalExtractions = 1 /\ ~wa.finalFound /\ ~wa.taskCompleted)
    /\ RunEnded =>
           /\ wa.status \in {"finalAnswer", "Completed"} =>
                  (wa.taskCompleted /\ wa.finalExtractions = 0)
           /\ wa.finalExtractions = 1 =>
                  /\ wa.taskCompleted <=> wa.finalFound
                  /\ wa.finalFound => wa.status = "Completed via final extraction"
                  /\ ~wa.finalFound => wa.status \in {"Partially Complete", "Incomplete"}
           /\ ~wa.taskCompleted => wa.finalExtractions = 1

\* C29 witness: after eight iterations the final extraction pass found items
C29_Witness ==
    /\ wa.outcome = "returned"
    /\ wa.currentIteration = 8
    /\ wa.finalFound
    /\ wa.taskCompleted
    /\ wa.status = "Completed via final extraction"

\* C30: a decision with isCompleted true and confidence above 0.7 ends the run
\* Completed with finalAnswer as its result, no action executed or recorded in
\* that iteration; any other decision does not end the run.
C30_ModelDeclaresCompletion ==
    /\ [][wa.pc = "decide" =>
            IF wa'.decision.isCompleted /\ wa'.decision.confidence > ConfidenceThreshold
            THEN /\ wa'.pc = "finally" /\ wa'.taskCompleted
                 /\ wa'.status = "finalAnswer"
                 /\ wa'.steps = wa.steps
                 /\ wa'.extractionSteps = wa.extractionSteps
                 /\ wa'.actResult = "none"
            ELSE /\ wa'.pc \in {"extract", "act"}
                 /\ ~wa'.taskCompleted /\ wa'.status = "none"]_vars
    /\ [](wa.status = "finalAnswer" =>
            /\ wa.decision.isCompleted /\ wa.decision.confidence > ConfidenceThreshold
            /\ wa.taskCompleted /\ wa.finalExtractions = 0)

\* C30 witness: the model declared completion in the third iteration
C30_Witness ==
    /\ wa.outcome = "returned"
    /\ wa.status = "finalAnswer"
    /\ wa.currentIteration = 3
    /\ wa.steps = 2

\* the model path of the getNextAction call did not yield a decision
FellBack == gna.pc = "done" /\ gna.outcome \in {"modelError", "unparseable", "noAction"}

\* how many of the three most recent recorded actions were scrolls
RecentScrolls ==
    Cardinality({ i \in 1..Len(gna.allSteps) :
                    i > Len(gna.allSteps) - 3 /\ gna.allSteps[i] = "scroll" })

\* C31 (as amended): when the model call errors or its output yields no
\* decision, the decision returned is extract if at least two of the three
\* most recent recorded actions were scrolls, otherwise wait if loading
\* indicators are present, otherwise scroll, and it never declares the task
\* completed.
C31_FallbackDecision ==
    FellBack =>
        /\ ~gna.result.isCompleted
        /\ gna.result.type = IF RecentScrolls >= 2 THEN "extract"
                             ELSE IF gna.hasLoadingIndicators THEN "wait"
                             ELSE "scroll"

\* C31 witness: the model call failed after scroll, click, scroll on a page
\* with loading indicators, and extract was decided
C31_Witness ==
    /\ FellBack
    /\ gna.outcome = "modelError"
    /\ gna.allSteps = <<"scroll", "click", "scroll">>
    /\ gna.hasLoadingIndicators
    /\ gna.result.type = "extract"

\* C31 as stated: extract exactly when the two most recent recorded actions
\* were consecutive scrolls.
C31_ConsecutiveScrolls ==
    FellBack =>
        /\ ~gna.result.isCompleted
        /\ gna.result.type =
             IF /\ Len(gna.allSteps) >= 2
                /\ gna.allSteps[Len(gna.allSteps)] = "scroll"
                /\ gna.allSteps[Len(gna.allSteps) - 1] = "scroll"
             THEN "extract"
             ELSE IF gna.hasLoadingIndicators THEN "wait"
             ELSE "scroll"

\* C32: within one WebAgent run the recorded steps are strictly increasing in
\* iteration number, none is numbered above the iteration counter (so there
\* are never more steps than totalIterations), and a step of the run only
\* ever appends at most one record to the list.
C32_StepsOrdered ==
    /\ [](/\ \A i \in 1..Len(wa.allSteps) : wa.allSteps[i] \in 1..wa.currentIteration
          /\ \A i \in 1..Len(wa.allSteps), j \in 1..Len(wa.allSteps) :
                i < j => wa.allSteps[i] < wa.allSteps[j]
          /\ Len(wa.allSteps) <= wa.currentIteration)
    /\ [][/\ IsPrefix(wa.allSteps, wa'.allSteps)
          /\ Len(wa'.allSteps) <= Len(wa.allSteps) + 1]_vars

\* C32 witness: a run that returned after all eight iterations, each of which
\* recorded a step
C32_Witness ==
    /\ wa.pc = "done"
    /\ wa.outcome = "returned"
    /\ wa.currentIteration = maxIterations
    /\ wa.allSteps = <<1, 2, 3, 4, 5, 6, 7, 8>>

(***************************************************************************)
(* Properties of the Result Formatter.                                     *)
(***************************************************************************)
\* C15 as stated: for a payload of k >= 1 items the returned text holds at
\* least 0.8 * k itemized entries, also when the model call fails; and a model
\* output with fewer than 0.8 * k markers is replaced by the deterministic
\* formatter's k entries
C15_FormatterComplete ==
    (fmt.pc = "done" /\ fmt.k >= 1 /\ fmt.promptGiven /\ fmt.paramsGiven /\ fmt.wellFormed) =>
        /\ 5 * fmt.entries >= 4 * fmt.k
        /\ (fmt.path # "fallback" /\ 5 * fmt.markers < 4 * fmt.k) => fmt.entries = fmt.k

\* C21 as stated: every outcome of ResponseFormatterAgent, a failure of both
\* the model path and the fallback included, is a result with isCompleted
\* true and a non-empty response string
C21_AlwaysNonEmptyResult ==
    fmt.pc = "done" => fmt.isCompleted /\ ~fmt.responseEmpty

(***************************************************************************)
(* Properties of the ContentManager.                                       *)
(***************************************************************************)
\* the words of a text, counted by the positions where a word ends
WordEnds(text) ==
    { i \in 1..Len(text) :
        ~IsSpace(text[i]) /\ (i = Len(text) \/ IsSpace(text[i + 1])) }

\* n = ceil((1.3 * wordCount + charCount / 4) / 2) for the text
IsEstimateOf(n, text) ==
    LET weight == 26 * Cardinality(WordEnds(text)) + 5 * Len(text)
    IN  40 * n >= weight /\ 40 * (n - 1) < weight

\* the length truncateContent was to cut to
TargetLength == IF cm.maxLength # 0 THEN cm.maxLength ELSE cm.this.maxContentLength

\* the request of the system prompt and the content is within the token budget
WithinBudget(content) ==
    estimateTokens(Str(cm.systemPrompt)) + estimateTokens(Str(content))
        <= cm.this.maxTokensPerRequest

C17_TruncatePrefix ==
    (cm.op = "truncateContent" /\ cm.input.isString) =>
        LET s == cm.input.chars
            out == cm.text
            n == Len(out) - Len(Marker)
        IN  /\ Len(s) <= TargetLength => out = s
            /\ Len(s) > TargetLength =>
                /\ Len(out) <= TargetLength + Len(Marker)
                /\ n >= 0
                /\ SubSeq(out, n + 1, Len(out)) = Marker
                /\ \E i \in 1..(TargetLength + 1), j \in 0..TargetLength :
                       SubSeq(out, 1, n) = SubSeq(s, i, j)

\* C17 witness: a string longer than the limit was cut before the limit
C17_Witness ==
    /\ cm.op = "truncateContent"
    /\ cm.input.isString
    /\ Len(cm.input.chars) > TargetLength
    /\ Len(cm.text) > Len(Marker)
    /\ Len(cm.text) < TargetLength + Len(Marker)

\* C18: estimateTokens returns 0 for an empty or non-string value, returns
\* ceil((1.3 * wordCount + charCount / 4) / 2) for a string, and for a string
\* a and a non-empty string b its value for a + b is at least its value for a.
C18_EstimateMonotone ==
    cm.op = "estimateTokens" =>
        /\ (~cm.input.isString \/ cm.input.chars = <<>>) => cm.tokens = 0
        /\ (cm.input.isString /\ cm.input.chars # <<>>) =>
               IsEstimateOf(cm.tokens, cm.input.chars)
        /\ cm.input.isString =>
               /\ cm.suffix # <<>>
               /\ IsEstimateOf(cm.tokensAppended, cm.input.chars \o cm.suffix)
               /\ cm.tokensAppended >= cm.tokens

\* C18 witness: the estimate of a string of two tokens or more grew with a suffix
C18_Witness ==
    /\ cm.op = "estimateTokens"
    /\ cm.input.isString
    /\ cm.tokens >= 2
    /\ cm.tokensAppended > cm.tokens


\* C40: for every content, the empty one included, and every chunkSize >= 1
\* createContentChunks returns, and the list it returns holds no empty chunk.
C40_NoEmptyChunk ==
    /\ [](cm.op = "createContentChunks" /\ cm.pc = "done" =>
            \A i \in 1..Len(cm.chunks) : cm.chunks[i] # Str(<<>>))
    /\ (cm.op = "createContentChunks" ~> cm.pc = "done")

=============================================================================
